---- MODULE Spec2Model ----
(***************************************************************************)
(* State-machine model of the SEC data synchronization pipeline:           *)
(* DataCache, SECAPIService (the upstream client), the entity             *)
(* repositories and SECDataProcessor (the sync orchestrator).              *)
(*                                                                         *)
(* Conventions.  A Python str is a sequence of one-character strings, a    *)
(* dict is a function over its keys (the empty dict is <<>>), a list is a  *)
(* sequence, Optional[x] is <<>> for None and <<x>> otherwise.  Time is    *)
(* counted in days; a "%Y-%m-%d" date string is the decimal spelling of    *)
(* its day number.                                                         *)
(***************************************************************************)
EXTENDS Integers, Sequences, FiniteSets, TLC

VARIABLES
    now,             \* the wall clock read by datetime.now(), in days
    caches,          \* SECAPIService's four DataCache objects: name -> entries
    cache_files,     \* the four cache files written by _save_caches
    mappings,        \* CIKTickerRepository.mappings: cik -> mapping
    ticker_to_cik,   \* CIKTickerRepository.ticker_to_cik: ticker -> cik
    companies,       \* CompanyRepository.companies: ticker -> company
    filings,         \* FilingRepository.filings: accession number -> filing
    metrics,         \* FinancialMetricRepository.metrics: metric id -> metric
    cache,           \* a DataCache object used on its own
    disk,            \* the records the repositories have written under data/
    requests,        \* the sync requests in flight, each with its own repository
    ret              \* what the last operation did and returned

vars == <<now, caches, cache_files, mappings, ticker_to_cik, companies,
          filings, metrics, cache, disk, requests, ret>>

stores == <<mappings, ticker_to_cik, companies, filings, metrics>>

-----------------------------------------------------------------------------
(* Bounds of the model *)

MaxTime == 2

\* the max_size of the bounded DataCache
CacheMaxSize == 2

\* the most leading zeros a CIK is spelled with
MaxCikZeros == 11

\* the sync requests served at the same time
MaxRequests == 2

-----------------------------------------------------------------------------
(* Python built-ins *)

None == <<>>

Some(x) == <<x>>

Digits == <<"0", "1", "2", "3", "4", "5", "6", "7", "8", "9">>

DigitValue(c) == CHOOSE d \in 0..9 : Digits[d + 1] = c

isdigit(s) == Len(s) > 0 /\ \A i \in 1..Len(s) : \E d \in 1..10 : Digits[d] = s[i]

zfill(s, width) ==
    IF Len(s) >= width THEN s ELSE [i \in 1..(width - Len(s)) |-> "0"] \o s

RECURSIVE str(_)
str(n) == IF n < 10 THEN <<Digits[n + 1]>> ELSE str(n \div 10) \o <<Digits[(n % 10) + 1]>>

RECURSIVE int(_)
int(s) == IF Len(s) = 1 THEN DigitValue(s[1])
          ELSE 10 * int(SubSeq(s, 1, Len(s) - 1)) + DigitValue(s[Len(s)])

LowerCase == <<"a", "b", "c", "l", "p">>

UpperCase == <<"A", "B", "C", "L", "P">>

UpperChar(c) ==
    IF \E i \in 1..Len(LowerCase) : LowerCase[i] = c
    THEN UpperCase[CHOOSE i \in 1..Len(LowerCase) : LowerCase[i] = c]
    ELSE c

upper(s) == [i \in 1..Len(s) |-> UpperChar(s[i])]

\* dict.get(key, default)
Get(d, key, default) == IF key \in DOMAIN d THEN d[key] ELSE default

\* truth value of a dict, list or str
Truthy(v) == DOMAIN v # {}

\* d[key] = value
Put(d, key, value) == [k \in (DOMAIN d) \cup {key} |-> IF k = key THEN value ELSE d[k]]

-----------------------------------------------------------------------------
(* config.py *)

API_CONFIG ==
    [DEFAULT_USER_AGENT |-> "Financial Dashboard/1.0",
     RATE_LIMIT_DELAY   |-> 1,
     HOST               |-> "0.0.0.0",
     PORT               |-> 8002,
     TIMEOUT            |-> 30,
     MAX_RETRIES        |-> 3,
     RETRY_BACKOFF      |-> 5]

CACHE_TTL ==
    [company_tickers |-> 7,
     submissions     |-> 1,
     company_facts   |-> 1,
     company_concept |-> 1]

CacheNames == DOMAIN CACHE_TTL

-----------------------------------------------------------------------------
(* models/data_cache.py *)

\* an entry that counts as expired from the instant of its expiry on
is_expired_AtExpiry(entry, t) ==
    IF entry.expires_at = None THEN FALSE ELSE t >= entry.expires_at[1]

\* CacheEntry.is_expired, read at time t
is_expired(entry, t) ==
    IF entry.expires_at = None THEN FALSE ELSE t > entry.expires_at[1]

\* DataCache.get: None for a missing or an expired entry
CacheGet(entries, key, t) ==
    IF key \notin DOMAIN entries \/ is_expired(entries[key], t)
    THEN None
    ELSE Some(entries[key].data)

\* `del self.entries[key]`: the remaining keys keep their relative order
\* (pos is kept as the rank in the insertion order)
Del(entries, key) ==
    LET rest == (DOMAIN entries) \ {key} IN
    [k \in rest |->
        [entries[k] EXCEPT !.pos =
            Cardinality({j \in rest : entries[j].pos <= entries[k].pos})]]

\* DataCache._evict_oldest: min() over the items returns the first entry, in
\* the dict's insertion order (pos), among those with the smallest created_at
EvictOldest(entries) ==
    IF DOMAIN entries = {} THEN entries
    ELSE LET oldest_key == CHOOSE k \in DOMAIN entries :
                 \A j \in DOMAIN entries :
                     \/ entries[k].created_at < entries[j].created_at
                     \/ /\ entries[k].created_at = entries[j].created_at
                        /\ entries[k].pos <= entries[j].pos
         IN  Del(entries, oldest_key)

\* where `self.entries[key] = ...` puts the key in the dict's insertion
\* order: an existing key keeps its place, a new key goes last
InsertPos(entries, key) ==
    IF key \in DOMAIN entries THEN entries[key].pos
    ELSE IF DOMAIN entries = {} THEN 1
    ELSE 1 + (CHOOSE p \in {entries[k].pos : k \in DOMAIN entries} :
                 \A k \in DOMAIN entries : entries[k].pos <= p)

\* a set that lets the cache's default_ttl take precedence over the ttl passed
CacheSet_DefaultFirst(entries, key, value, ttl, default_ttl, max_size, t) ==
    LET expires_at == IF default_ttl # None THEN Some(t + default_ttl[1])
                      ELSE IF ttl # None THEN Some(t + ttl[1])
                      ELSE None
        stored == Put(entries, key,
                      [data |-> value, created_at |-> t, expires_at |-> expires_at,
                       pos |-> InsertPos(entries, key)])
    IN  IF max_size # None /\ max_size[1] # 0 /\ Cardinality(DOMAIN stored) > max_size[1]
        THEN EvictOldest(stored)
        ELSE stored

\* DataCache.set with ttl, default_ttl and max_size given as Optional values
CacheSet(entries, key, value, ttl, default_ttl, max_size, t) ==
    LET expires_at == IF ttl # None THEN Some(t + ttl[1])
                      ELSE IF default_ttl # None THEN Some(t + default_ttl[1])
                      ELSE None
        stored == Put(entries, key,
                      [data |-> value, created_at |-> t, expires_at |-> expires_at,
                       pos |-> InsertPos(entries, key)])
    IN  IF max_size # None /\ max_size[1] # 0 /\ Cardinality(DOMAIN stored) > max_size[1]
        THEN EvictOldest(stored)
        ELSE stored

\* DataCache(name, max_size, default_ttl) as constructed: no entries
DataCache(max_size, default_ttl) ==
    [entries |-> <<>>, max_size |-> max_size, default_ttl |-> default_ttl]

\* DataCache.delete: the entries left and the value returned
CacheDelete(entries, key) ==
    IF key \in DOMAIN entries
    THEN [entries |-> Del(entries, key), value |-> TRUE]
    ELSE [entries |-> entries, value |-> FALSE]

\* DataCache.clear
CacheClear(entries) == <<>>

-----------------------------------------------------------------------------
(* services/sec_api_service.py: the HTTP request loop *)

\* outcome of one requests.get: an HTTP status, or RequestError when the
\* call raises instead of answering
RequestError == 0 - 1

Statuses == {200, 403, 404, 429, RequestError}

\* The upstream's answers to the successive GETs of one _make_request call.
ResponseSeqs == [1..(API_CONFIG.MAX_RETRIES + 1) -> Statuses]

\* _make_request retrying after every status other than 200
RECURSIVE RequestLoop_RetryAll(_, _, _, _, _)
RequestLoop_RetryAll(rs, payload, retries, gets, max_retries) ==
    IF retries > max_retries
    THEN [status |-> 0, data |-> None, gets |-> gets]
    ELSE IF retries > 0 /\ "BACKOFF_FACTOR" \notin DOMAIN API_CONFIG
    THEN IF retries + 1 > max_retries
         THEN [status |-> 0, data |-> None, gets |-> gets]
         ELSE RequestLoop_RetryAll(rs, payload, retries + 1, gets, max_retries)
    ELSE LET response == rs[gets + 1] IN
         IF response = RequestError
         THEN IF retries + 1 > max_retries
              THEN [status |-> 0, data |-> None, gets |-> gets + 1]
              ELSE RequestLoop_RetryAll(rs, payload, retries + 1, gets + 1, max_retries)
         ELSE IF response = 200
         THEN [status |-> 200, data |-> Some(payload), gets |-> gets + 1]
         ELSE IF retries + 1 > max_retries
              THEN [status |-> response, data |-> None, gets |-> gets + 1]
              ELSE RequestLoop_RetryAll(rs, payload, retries + 1, gets + 1, max_retries)

\* _make_request handing the body back with an error status
RECURSIVE RequestLoop_DataOnError(_, _, _, _, _)
RequestLoop_DataOnError(rs, payload, retries, gets, max_retries) ==
    IF retries > max_retries
    THEN [status |-> 0, data |-> None, gets |-> gets]
    ELSE IF retries > 0 /\ "BACKOFF_FACTOR" \notin DOMAIN API_CONFIG
    THEN IF retries + 1 > max_retries
         THEN [status |-> 0, data |-> None, gets |-> gets]
         ELSE RequestLoop_DataOnError(rs, payload, retries + 1, gets, max_retries)
    ELSE LET response == rs[gets + 1] IN
         IF response = RequestError
         THEN IF retries + 1 > max_retries
              THEN [status |-> 0, data |-> None, gets |-> gets + 1]
              ELSE RequestLoop_DataOnError(rs, payload, retries + 1, gets + 1, max_retries)
         ELSE IF response = 200
         THEN [status |-> 200, data |-> Some(payload), gets |-> gets + 1]
         ELSE IF response \in {429, 403}
         THEN IF retries + 1 > max_retries
              THEN [status |-> response, data |-> None, gets |-> gets + 1]
              ELSE RequestLoop_DataOnError(rs, payload, retries + 1, gets + 1, max_retries)
         ELSE [status |-> response, data |-> Some(payload), gets |-> gets + 1]

\* _make_request: rs[i] answers the i-th GET, payload is the body of a 200.
\* The result carries the number of GETs issued.
RECURSIVE RequestLoop(_, _, _, _, _)
RequestLoop(rs, payload, retries, gets, max_retries) ==
    IF retries > max_retries
    THEN [status |-> 0, data |-> None, gets |-> gets]
    ELSE IF retries > 0 /\ "BACKOFF_FACTOR" \notin DOMAIN API_CONFIG
    THEN \* API_CONFIG["BACKOFF_FACTOR"] raises KeyError inside the try block
         IF retries + 1 > max_retries
         THEN [status |-> 0, data |-> None, gets |-> gets]
         ELSE RequestLoop(rs, payload, retries + 1, gets, max_retries)
    ELSE LET response == rs[gets + 1] IN
         IF response = RequestError
         THEN IF retries + 1 > max_retries
              THEN [status |-> 0, data |-> None, gets |-> gets + 1]
              ELSE RequestLoop(rs, payload, retries + 1, gets + 1, max_retries)
         ELSE IF response = 200
         THEN [status |-> 200, data |-> Some(payload), gets |-> gets + 1]
         ELSE IF response \in {429, 403}
         THEN IF retries + 1 > max_retries
              THEN [status |-> response, data |-> None, gets |-> gets + 1]
              ELSE RequestLoop(rs, payload, retries + 1, gets + 1, max_retries)
         ELSE [status |-> response, data |-> None, gets |-> gets + 1]

make_request(rs, payload) == RequestLoop(rs, payload, 0, 0, API_CONFIG.MAX_RETRIES)

\* Answers that are never requested do not matter: only the response
\* sequences whose unrequested tail is all 200 are enumerated.
Requested(rs) == \A i \in DOMAIN rs : i > make_request(rs, <<>>).gets => rs[i] = 200

Responses == {rs : rs \in {r \in ResponseSeqs : Requested(r)}}

-----------------------------------------------------------------------------
(* services/sec_api_service.py: the four cached fetch operations *)

\* the cache consulted by each operation
NoTtl == None

NoMaxSize == None

\* a cache write that leaves an entry already stored for the key alone
ServiceCacheSet_KeepExisting(cs, name, key, value, t) ==
    IF key \in DOMAIN cs[name]
    THEN cs
    ELSE [cs EXCEPT ![name] = CacheSet(cs[name], key, value, NoTtl,
                                       Some(CACHE_TTL[name]), NoMaxSize, t)]

\* DataCache.set as the service calls it: no ttl argument, the cache's
\* default_ttl from CACHE_TTL, no max_size
ServiceCacheSet(cs, name, key, value, t) ==
    [cs EXCEPT ![name] = CacheSet(cs[name], key, value, NoTtl,
                                  Some(CACHE_TTL[name]), NoMaxSize, t)]

\* a fallback that reads the stored entry without looking at its expiry
Fallback_Stale(cs, name, key, t) ==
    IF key \in DOMAIN cs[name] /\ Truthy(cs[name][key].data)
    THEN cs[name][key].data
    ELSE <<>>

\* the fallback of a failed fetch: the cached data when get returns
\* something truthy, the empty dict otherwise
Fallback(cs, name, key, t) ==
    LET cached_data == CacheGet(cs[name], key, t) IN
    IF cached_data # None /\ Truthy(cached_data[1]) THEN cached_data[1] ELSE <<>>

\* `if not force_refresh: cached_data = cache.get(key); if cached_data: return`
CacheHit(cs, name, key, force_refresh, t) ==
    /\ ~force_refresh
    /\ CacheGet(cs[name], key, t) # None
    /\ Truthy(CacheGet(cs[name], key, t)[1])

\* the body shared by get_company_submissions, get_company_facts and
\* get_company_concept once the cache key is known
FetchCached(cs, files, name, key, force_refresh, rs, payload, t) ==
    IF CacheHit(cs, name, key, force_refresh, t)
    THEN [value |-> CacheGet(cs[name], key, t)[1], caches |-> cs, files |-> files,
          gets |-> 0, status |-> None, data |-> None, responses |-> <<>>]
    ELSE LET r == make_request(rs, payload) IN
         IF r.status # 200 \/ r.data = None
         THEN [value |-> Fallback(cs, name, key, t), caches |-> cs, files |-> files,
               gets |-> r.gets, status |-> Some(r.status), data |-> r.data,
               responses |-> rs]
         ELSE LET cs2 == ServiceCacheSet(cs, name, key, r.data[1], t) IN
              [value |-> r.data[1], caches |-> cs2, files |-> cs2,
               gets |-> r.gets, status |-> Some(r.status), data |-> r.data,
               responses |-> rs]

\* a normalization that returns the CIK as it was spelled
StandardizeCik_AsSpelled(cik) == cik

\* `if cik.isdigit(): cik = cik.zfill(10)`
StandardizeCik(cik) == IF isdigit(cik) THEN zfill(cik, 10) ELSE cik

get_company_submissions(cs, files, cik, force_refresh, rs, payload, t) ==
    FetchCached(cs, files, "submissions", <<"submissions", StandardizeCik(cik)>>,
                force_refresh, rs, payload, t)

get_company_facts(cs, files, cik, force_refresh, rs, payload, t) ==
    FetchCached(cs, files, "company_facts", <<"facts", StandardizeCik(cik)>>,
                force_refresh, rs, payload, t)

get_company_concept(cs, files, cik, concept, force_refresh, rs, payload, t) ==
    FetchCached(cs, files, "company_concept", <<"concept", StandardizeCik(cik), concept>>,
                force_refresh, rs, payload, t)

\* The loop of get_company_tickers over the raw directory: a dict kept as
\* the sequence of its items in insertion order, keyed by the padded CIK.
TickerInfoOk(company_info) == {"cik_str", "title", "ticker"} \subseteq DOMAIN company_info

RECURSIVE ProcessTickers(_, _)
ProcessTickers(data, result) ==
    IF data = <<>> THEN result
    ELSE LET company_info == Head(data)
             cik_str == zfill(str(company_info["cik_str"]), 10)
             item == [key |-> cik_str,
                      value |-> [cik |-> cik_str, name |-> company_info["title"],
                                 ticker |-> company_info["ticker"]]]
             pos == {i \in 1..Len(result) : result[i].key = cik_str}
         IN  ProcessTickers(Tail(data),
                 IF pos = {} THEN Append(result, item)
                 ELSE [result EXCEPT ![CHOOSE i \in pos : TRUE] = item])

get_company_tickers(cs, files, force_refresh, rs, payload, t) ==
    LET name == "company_tickers"
        key == <<"tickers">>
    IN
    IF CacheHit(cs, name, key, force_refresh, t)
    THEN [value |-> CacheGet(cs[name], key, t)[1], caches |-> cs, files |-> files,
          gets |-> 0, status |-> None, data |-> None, responses |-> <<>>]
    ELSE LET r == make_request(rs, payload) IN
         IF r.status # 200 \/ r.data = None
         THEN [value |-> Fallback(cs, name, key, t), caches |-> cs, files |-> files,
               gets |-> r.gets, status |-> Some(r.status), data |-> r.data,
               responses |-> rs]
         ELSE IF \E i \in 1..Len(r.data[1]) : ~TickerInfoOk(r.data[1][i])
         THEN \* company_info[...] raises KeyError: the except branch
              [value |-> Fallback(cs, name, key, t), caches |-> cs, files |-> files,
               gets |-> r.gets, status |-> Some(r.status), data |-> r.data,
               responses |-> rs]
         ELSE LET result == ProcessTickers(r.data[1], <<>>)
                  cs2 == ServiceCacheSet(cs, name, key, result, t)
              IN  [value |-> result, caches |-> cs2, files |-> cs2,
                   gets |-> r.gets, status |-> Some(r.status), data |-> r.data,
               responses |-> rs]

-----------------------------------------------------------------------------
(* models/ and repositories/: the entity store *)

\* CIKTickerMapping(...) with __post_init__: CIK zero-padded, ticker uppercased
CIKTickerMapping(cik, ticker, company_name, last_updated) ==
    [cik |-> IF isdigit(cik) THEN zfill(cik, 10) ELSE cik,
     ticker |-> IF Truthy(ticker) THEN upper(ticker) ELSE None,
     company_name |-> company_name,
     is_active |-> TRUE,
     last_updated |-> last_updated]

\* CIKTickerRepository.get_by_cik
get_by_cik(ms, cik) == Get(ms, StandardizeCik(cik), None)

\* CIKTickerRepository.get_by_ticker: through the ticker index
get_by_ticker(ms, t2c, ticker) ==
    LET cik == Get(t2c, upper(ticker), None) IN
    IF Truthy(cik) THEN (IF cik \in DOMAIN ms THEN Some(ms[cik]) ELSE None) ELSE None

MappingCreate_Overwrite(ms, t2c, mapping) ==
    [raised |-> FALSE,
     mappings |-> Put(ms, mapping.cik, mapping),
     ticker_to_cik |-> Put(t2c, upper(mapping.ticker), mapping.cik)]

\* CIKTickerRepository.create; raised stands for the ValueError
MappingCreate(ms, t2c, mapping) ==
    IF mapping.cik \in DOMAIN ms
    THEN [raised |-> TRUE, mappings |-> ms, ticker_to_cik |-> t2c]
    ELSE [raised |-> FALSE,
          mappings |-> Put(ms, mapping.cik, mapping),
          ticker_to_cik |-> Put(t2c, upper(mapping.ticker), mapping.cik)]

\* CIKTickerRepository.update; ms already holds whatever the caller wrote
\* into the stored object, which is the object old_mapping reads
MappingUpdate(ms, t2c, mapping) ==
    IF mapping.cik \notin DOMAIN ms
    THEN [raised |-> TRUE, mappings |-> ms, ticker_to_cik |-> t2c]
    ELSE LET old_mapping == ms[mapping.cik]
             index == IF old_mapping.ticker # mapping.ticker
                      THEN Put([t \in (DOMAIN t2c) \ {old_mapping.ticker} |-> t2c[t]],
                               upper(mapping.ticker), mapping.cik)
                      ELSE t2c
         IN  [raised |-> FALSE,
              mappings |-> Put(ms, mapping.cik, mapping),
              ticker_to_cik |-> index]

\* Company(...) with __post_init__: ticker uppercased
Company(ticker, name, cik) ==
    [ticker |-> IF Truthy(ticker) THEN upper(ticker) ELSE None, name |-> name, cik |-> cik]

\* CompanyRepository.get_by_ticker
company_get_by_ticker(cs, ticker) == Get(cs, upper(ticker), None)

\* CompanyRepository.create and update, keyed by company.ticker
CompanyCreate(cs, company) ==
    IF company.ticker \in DOMAIN cs
    THEN [raised |-> TRUE, companies |-> cs]
    ELSE [raised |-> FALSE, companies |-> Put(cs, company.ticker, company)]

CompanyUpdate(cs, company) ==
    IF company.ticker \notin DOMAIN cs
    THEN [raised |-> TRUE, companies |-> cs]
    ELSE [raised |-> FALSE, companies |-> Put(cs, company.ticker, company)]

\* Filing(...)
Filing(accession_number, form_type, filing_date, period_end_date, company_id) ==
    [accession_number |-> accession_number, form_type |-> form_type,
     filing_date |-> filing_date, period_end_date |-> period_end_date,
     company_id |-> company_id]

\* FilingRepository.create and update, keyed by accession number
FilingCreate(fs, filing) ==
    IF filing.accession_number \in DOMAIN fs
    THEN [raised |-> TRUE, filings |-> fs]
    ELSE [raised |-> FALSE, filings |-> Put(fs, filing.accession_number, filing)]

\* an update that leaves the stored filing as it is
FilingUpdate_Noop(fs, filing) == [raised |-> filing.accession_number \notin DOMAIN fs, filings |-> fs]

FilingUpdate(fs, filing) ==
    IF filing.accession_number \notin DOMAIN fs
    THEN [raised |-> TRUE, filings |-> fs]
    ELSE [raised |-> FALSE, filings |-> Put(fs, filing.accession_number, filing)]

\* a metric id that numbers the records instead of naming the observation
generate_metric_id_Counter(metric) ==
    <<metric.company_id, metric.name, metric.period, metric.date,
      Cardinality(DOMAIN metrics)>>

\* FinancialMetricRepository._generate_metric_id: the components joined by "_"
generate_metric_id(metric) ==
    <<metric.company_id, metric.name, metric.period, metric.date>>

MetricUpdate_KeepStored(mts, metric) ==
    [raised |-> generate_metric_id(metric) \notin DOMAIN mts, metrics |-> mts]

\* FinancialMetricRepository.create and update, keyed by the generated id
MetricCreate(mts, metric) ==
    IF generate_metric_id(metric) \in DOMAIN mts
    THEN [raised |-> TRUE, metrics |-> mts]
    ELSE [raised |-> FALSE, metrics |-> Put(mts, generate_metric_id(metric), metric)]

MetricUpdate(mts, metric) ==
    IF generate_metric_id(metric) \notin DOMAIN mts
    THEN [raised |-> TRUE, metrics |-> mts]
    ELSE [raised |-> FALSE, metrics |-> Put(mts, generate_metric_id(metric), metric)]

-----------------------------------------------------------------------------
(* services/sec_data_processor.py: filing and metric extraction *)

\* datetime.strptime(s, "%Y-%m-%d") succeeds on a well-formed date string
DateOk(s) == isdigit(s)

strptime(s) == int(s)

PeriodicForms == {"10-K", "10-Q"}

\* The loop of _process_company_filings from index i on.  raised stands for
\* the IndexError or ValueError that ends the loop and the sync.
RECURSIVE ProcessFilings(_, _, _, _, _)
ProcessFilings(i, recent, company, force_refresh, fs) ==
    LET accession_numbers == Get(recent, "accessionNumber", <<>>)
        form_types == Get(recent, "form", <<>>)
        filing_dates == Get(recent, "filingDate", <<>>)
        reporting_dates == Get(recent, "reportDate", <<>>)
    IN
    IF i > Len(accession_numbers) THEN [raised |-> FALSE, filings |-> fs]
    ELSE IF i > Len(form_types) THEN [raised |-> TRUE, filings |-> fs]
    ELSE IF form_types[i] \notin PeriodicForms
    THEN ProcessFilings(i + 1, recent, company, force_refresh, fs)
    ELSE IF accession_numbers[i] \in DOMAIN fs /\ ~force_refresh
    THEN ProcessFilings(i + 1, recent, company, force_refresh, fs)
    ELSE IF \/ i > Len(filing_dates) \/ i > Len(reporting_dates)
            \/ ~DateOk(filing_dates[i]) \/ ~DateOk(reporting_dates[i])
    THEN [raised |-> TRUE, filings |-> fs]
    ELSE LET filing == Filing(accession_numbers[i],
                              IF accession_numbers[i] \in DOMAIN fs
                              THEN fs[accession_numbers[i]].form_type
                              ELSE form_types[i],
                              strptime(filing_dates[i]), strptime(reporting_dates[i]),
                              company.ticker)
             r == IF accession_numbers[i] \in DOMAIN fs
                  THEN FilingUpdate(fs, filing)
                  ELSE FilingCreate(fs, filing)
         IN  IF r.raised THEN r
             ELSE ProcessFilings(i + 1, recent, company, force_refresh, r.filings)

\* _process_company_filings
process_company_filings(company, submissions, force_refresh, fs) ==
    LET recent_filings == Get(Get(submissions, "filings", <<>>), "recent", <<>>) IN
    IF ~Truthy(recent_filings) THEN [raised |-> FALSE, filings |-> fs]
    ELSE ProcessFilings(1, recent_filings, company, force_refresh, fs)

\* SECDataProcessor.COMMON_METRICS, in declaration order
COMMON_METRICS ==
    <<[name |-> "Revenue",
       tags |-> <<"Revenue", "Revenues", "SalesRevenueNet", "SalesRevenueGoodsNet">>],
      [name |-> "NetIncome", tags |-> <<"NetIncomeLoss", "ProfitLoss">>],
      [name |-> "TotalAssets", tags |-> <<"Assets">>],
      [name |-> "TotalLiabilities", tags |-> <<"Liabilities">>],
      [name |-> "OperatingIncome", tags |-> <<"OperatingIncomeLoss">>],
      [name |-> "EPS", tags |-> <<"EarningsPerShareBasic", "EarningsPerShareDiluted">>],
      [name |-> "CashAndEquivalents", tags |-> <<"CashAndCashEquivalentsAtCarryingValue">>],
      [name |-> "Goodwill", tags |-> <<"Goodwill">>],
      [name |-> "RetainedEarnings", tags |-> <<"RetainedEarningsAccumulatedDeficit">>],
      [name |-> "StockholdersEquity", tags |-> <<"StockholdersEquity">>]>>

\* `"Q" in frame`
Contains(text, c) == \E i \in 1..Len(text) : text[i] = c

\* the period of one observation: the frame when there is one, else fp
DeterminePeriod(value_data) ==
    IF "frame" \in DOMAIN value_data
    THEN IF Contains(value_data["frame"], "Q") THEN "quarterly"
         ELSE IF Contains(value_data["frame"], "Y") THEN "annual"
         ELSE "annual"
    ELSE LET fp == Get(value_data, "fp", "") IN
         IF fp = "FY" THEN "annual"
         ELSE IF fp \in {"Q1", "Q2", "Q3", "Q4"} THEN "quarterly"
         ELSE "annual"

\* FinancialMetric(...) as _process_metric_tag builds it
FinancialMetric(name, value, date, period, xbrl_tag, xbrl_context, company_id) ==
    [name |-> name, value |-> value, date |-> date, period |-> period, unit |-> "USD",
     xbrl_tag |-> xbrl_tag, xbrl_context |-> xbrl_context, company_id |-> company_id]

\* The observation loop of _process_metric_tag from index i on
RECURSIVE ProcessValues(_, _, _, _, _, _)
ProcessValues(i, values, company, metric_name, xbrl_tag, mts) ==
    IF i > Len(values) THEN [raised |-> FALSE, metrics |-> mts]
    ELSE LET value_data == values[i] IN
         IF "val" \notin DOMAIN value_data
         THEN ProcessValues(i + 1, values, company, metric_name, xbrl_tag, mts)
         ELSE IF ~Truthy(Get(value_data, "end", <<>>))
         THEN ProcessValues(i + 1, values, company, metric_name, xbrl_tag, mts)
         ELSE IF ~DateOk(value_data["end"])
         THEN [raised |-> TRUE, metrics |-> mts]
         ELSE LET metric == FinancialMetric(metric_name, value_data["val"],
                                strptime(value_data["end"]), DeterminePeriod(value_data),
                                xbrl_tag, Get(value_data, "accn", None), company.ticker)
                  created == MetricCreate(mts, metric)
                  r == IF created.raised THEN MetricUpdate(mts, metric) ELSE created
              IN  IF r.raised THEN r
                  ELSE ProcessValues(i + 1, values, company, metric_name, xbrl_tag,
                                     r.metrics)

\* _process_metric_tag: USD first, then pure, else nothing
process_metric_tag(company, metric_name, xbrl_tag, tag_data, mts) ==
    LET units == Get(tag_data, "units", <<>>) IN
    IF "USD" \in DOMAIN units
    THEN ProcessValues(1, units["USD"], company, metric_name, xbrl_tag, mts)
    ELSE IF "pure" \in DOMAIN units
    THEN ProcessValues(1, units["pure"], company, metric_name, xbrl_tag, mts)
    ELSE [raised |-> FALSE, metrics |-> mts]

\* a tag search that keeps going and ends on the last alias present
FirstAvailableTag_Last(possible_tags, us_gaap) ==
    LET present == {j \in 1..Len(possible_tags) : possible_tags[j] \in DOMAIN us_gaap} IN
    IF present = {} THEN None
    ELSE Some(possible_tags[CHOOSE j \in present : \A k \in present : j >= k])

\* `for tag in possible_tags: if tag in us_gaap: ...; break`
FirstAvailableTag(possible_tags, us_gaap) ==
    LET present == {j \in 1..Len(possible_tags) : possible_tags[j] \in DOMAIN us_gaap} IN
    IF present = {} THEN None
    ELSE Some(possible_tags[CHOOSE j \in present : \A k \in present : j <= k])

\* The loop of _process_company_metrics over COMMON_METRICS from index i on
RECURSIVE ProcessMetrics(_, _, _, _)
ProcessMetrics(i, us_gaap, company, mts) ==
    IF i > Len(COMMON_METRICS) THEN [raised |-> FALSE, metrics |-> mts]
    ELSE LET tag == FirstAvailableTag(COMMON_METRICS[i].tags, us_gaap) IN
         IF tag = None THEN ProcessMetrics(i + 1, us_gaap, company, mts)
         ELSE LET r == process_metric_tag(company, COMMON_METRICS[i].name, tag[1],
                                          us_gaap[tag[1]], mts)
              IN  IF r.raised THEN r ELSE ProcessMetrics(i + 1, us_gaap, company, r.metrics)

\* _process_company_metrics once the facts are fetched
process_company_metrics(company, facts, mts) ==
    LET us_gaap == Get(Get(facts, "facts", <<>>), "us-gaap", <<>>) IN
    IF ~Truthy(us_gaap) THEN [raised |-> FALSE, metrics |-> mts]
    ELSE ProcessMetrics(1, us_gaap, company, mts)

-----------------------------------------------------------------------------
(* Upstream payloads used as inputs *)

EmptyPayload == <<>>

\* submissions: the parallel arrays under filings.recent
Recent(accessionNumber, form, filingDate, reportDate) ==
    [filings |-> [recent |-> [accessionNumber |-> accessionNumber, form |-> form,
                              filingDate |-> filingDate, reportDate |-> reportDate]]]

\* two valid periodic reports, one other form, one report dated far ahead
Submissions1 ==
    Recent(<<"acc-1", "acc-2", "acc-3", "acc-4">>,
           <<"10-K", "8-K", "10-Q", "10-K">>,
           <<str(0), str(0), str(1), str(9)>>,
           <<str(0), str(0), str(0), str(1)>>)

\* the first report again, with other dates
Submissions2 ==
    Recent(<<"acc-1">>, <<"10-K">>, <<str(1)>>, <<str(1)>>)

SubmissionsPayloads == {Submissions1, Submissions2}

\* company facts: facts -> us-gaap -> tag -> units -> unit -> observations
UsGaap(tags) == [facts |-> ("us-gaap" :> tags)]

Usd(observations) == [units |-> ("USD" :> observations)]

Facts1 ==
    UsGaap(("Revenues" :> Usd(<<[val |-> 100, end |-> str(0), fp |-> "FY"],
                                [val |-> 150, end |-> str(1), fp |-> "FY"]>>))
        @@ ("SalesRevenueNet" :> Usd(<<[val |-> 7, end |-> str(0), fp |-> "FY"]>>))
        @@ ("Assets" :> Usd(<<[val |-> 500, end |-> str(1), fp |-> "Q1"]>>)))

Facts2 ==
    UsGaap(("SalesRevenueNet" :> Usd(<<[val |-> 100, end |-> str(0), fp |-> "FY"],
                                       [val |-> 120, end |-> str(0), fp |-> "FY"],
                                       [val |-> 30, end |-> str(1),
                                        frame |-> <<"C", "Y", "1", "Q", "1">>]>>)))

FactsPayloads == {Facts1, Facts2}

\* a periodic report whose filing date does not parse, then a valid one
Submissions3 ==
    Recent(<<"acc-5", "acc-6">>, <<"10-K", "10-Q">>, <<<<"x">>, str(0)>>,
           <<str(0), str(0)>>)

\* an observation without val, one whose end date does not parse, a valid one
Facts3 ==
    UsGaap("Assets" :> Usd(<<[end |-> str(0), fp |-> "FY"],
                             [val |-> 5, end |-> <<"x">>, fp |-> "FY"],
                             [val |-> 9, end |-> str(1), fp |-> "FY"]>>))

\* an observation without val, then a valid one
Facts4 ==
    UsGaap("Assets" :> Usd(<<[end |-> str(0), fp |-> "FY"],
                             [val |-> 9, end |-> str(1), fp |-> "FY"]>>))

Concept1 == Usd(<<[val |-> 500, end |-> str(1), fp |-> "FY"]>>)

Concepts == {"Assets"}

\* the ticker directory as the upstream serves it: numeric-string keys in
\* order, each mapping to a record with cik_str, ticker and title
Directory1 ==
    <<[cik_str |-> 320193, ticker |-> <<"a", "a", "p", "l">>, title |-> "Apple Inc."]>>

Directory2 ==
    <<[cik_str |-> 7, ticker |-> <<"B">>, title |-> "Beta Corp"],
      [cik_str |-> 42, ticker |-> <<"B">>, title |-> "Beta Holdings"]>>

DirectoryPayloads == {EmptyPayload, Directory1, Directory2}

\* CIK spellings passed to the fetch operations
FetchCiks == {<<"7">>}

-----------------------------------------------------------------------------
(* Initial state: a fresh service and empty repositories *)

EmptyCaches == [name \in CacheNames |-> <<>>]

Ret(op, arg, force_refresh, value, raised, fetches) ==
    [op |-> op, arg |-> arg, force_refresh |-> force_refresh, value |-> value,
     raised |-> raised, fetches |-> fetches]

\* what one fetch did: the cache and key it used, the upstream's answers,
\* the GETs issued, the status and data _make_request returned (status None
\* when no request was made) and the value handed to the caller
FetchRecord(name, key, r) ==
    [name |-> name, key |-> key, responses |-> r.responses, gets |-> r.gets,
     status |-> r.status, data |-> r.data, value |-> r.value]

\* What lies under data/ when every write of the repositories is on disk:
\* companies.json and cik_ticker_mappings.json are rewritten whole from the
\* in-memory dict by every create and update (_save_to_file), and every
\* filing and metric is written to the file of its own key (_save_filing,
\* _save_metric), each before create or update returns.  A company sync
\* changes its stores through create and update only, or assigns to a
\* stored object right before its update.
Saved(ms, cs, fs, mts) ==
    [mappings |-> ms, companies |-> cs, filings |-> fs, metrics |-> mts]

\* the repositories were constructed over the files and loaded them; no
\* request is in flight
InitFiles ==
    /\ disk = Saved(mappings, companies, filings, metrics)
    /\ requests = <<>>

InitService ==
    /\ now = 0
    /\ caches = EmptyCaches
    /\ cache_files = EmptyCaches
    /\ cache = DataCache(None, None)
    /\ ret = Ret("init", <<>>, FALSE, <<>>, FALSE, <<>>)

InitEmptyStores ==
    /\ mappings = <<>>
    /\ ticker_to_cik = <<>>
    /\ companies = <<>>
    /\ filings = <<>>
    /\ metrics = <<>>
    /\ InitFiles

-----------------------------------------------------------------------------
(* The clock *)

Tick ==
    /\ now < MaxTime
    /\ now' = now + 1
    /\ ret' = Ret("tick", <<>>, FALSE, <<>>, FALSE, <<>>)
    /\ UNCHANGED <<caches, cache_files, stores, cache, disk, requests>>

-----------------------------------------------------------------------------
(* The upstream client called on its own *)

FetchAction(op, name, key, force_refresh, r) ==
    /\ caches' = r.caches
    /\ cache_files' = r.files
    /\ ret' = Ret(op, key, force_refresh, r.value, FALSE, <<FetchRecord(name, key, r)>>)
    /\ UNCHANGED <<now, stores, cache, disk, requests>>

FetchTickers ==
    \E force_refresh \in BOOLEAN, rs \in Responses, payload \in {Directory1} :
        FetchAction("get_company_tickers", "company_tickers", <<"tickers">>, force_refresh,
            get_company_tickers(caches, cache_files, force_refresh, rs, payload, now))

FetchSubmissions ==
    \E cik \in FetchCiks, force_refresh \in BOOLEAN, rs \in Responses,
       payload \in {EmptyPayload, Submissions1} :
        FetchAction("get_company_submissions", "submissions",
            <<"submissions", StandardizeCik(cik)>>, force_refresh,
            get_company_submissions(caches, cache_files, cik, force_refresh, rs, payload, now))

FetchFacts ==
    \E cik \in FetchCiks, force_refresh \in BOOLEAN, rs \in Responses,
       payload \in {Facts1} :
        FetchAction("get_company_facts", "company_facts",
            <<"facts", StandardizeCik(cik)>>, force_refresh,
            get_company_facts(caches, cache_files, cik, force_refresh, rs, payload, now))

FetchConcept ==
    \E cik \in FetchCiks, concept \in Concepts, force_refresh \in BOOLEAN,
       rs \in Responses, payload \in {Concept1} :
        FetchAction("get_company_concept", "company_concept",
            <<"concept", StandardizeCik(cik), concept>>, force_refresh,
            get_company_concept(caches, cache_files, cik, concept, force_refresh,
                                rs, payload, now))

FetchOps == {"get_company_tickers", "get_company_submissions", "get_company_facts",
             "get_company_concept"}

InitFetch == InitService /\ InitEmptyStores

NextFetch == FetchTickers \/ FetchSubmissions \/ FetchFacts \/ FetchConcept \/ Tick

SpecFetch == InitFetch /\ [][NextFetch]_vars

-----------------------------------------------------------------------------
(* services/sec_data_processor.py: sync_cik_ticker_mappings *)

DataKey == <<"d", "a", "t", "a">>

\* `"data" in company_tickers`
HasDataKey(company_tickers) ==
    \E i \in 1..Len(company_tickers) : company_tickers[i].key = DataKey

\* The loop of the old-format branch over company_tickers.items() from index
\* i on.  raised stands for the KeyError of company_info["title"] or the
\* ValueError of the repository; the writes made before it stay.
RECURSIVE SyncMappings(_, _, _, _, _, _, _)
SyncMappings(i, company_tickers, ms, t2c, file, synced, t) ==
    IF i > Len(company_tickers)
    THEN [raised |-> FALSE, mappings |-> ms, ticker_to_cik |-> t2c, file |-> file,
          value |-> synced]
    ELSE LET cik == company_tickers[i].key
             company_info == company_tickers[i].value
             existing_mapping == get_by_cik(ms, cik)
         IN
         IF existing_mapping # None
         THEN LET key == StandardizeCik(cik)
                  \* existing_mapping.ticker = company_info["ticker"]
                  ms1 == [ms EXCEPT ![key].ticker = company_info["ticker"]]
              IN
              IF "title" \notin DOMAIN company_info
              THEN [raised |-> TRUE, mappings |-> ms1, ticker_to_cik |-> t2c,
                    file |-> file, value |-> synced]
              ELSE LET ms2 == [ms1 EXCEPT ![key].company_name = company_info["title"],
                                          ![key].last_updated = t]
                       r == MappingUpdate(ms2, t2c, ms2[key])
                   IN  IF r.raised
                       THEN [raised |-> TRUE, mappings |-> r.mappings,
                             ticker_to_cik |-> r.ticker_to_cik, file |-> file,
                             value |-> synced]
                       ELSE SyncMappings(i + 1, company_tickers, r.mappings,
                                         r.ticker_to_cik, r.mappings,
                                         Append(synced, ms2[key]), t)
         ELSE IF "title" \notin DOMAIN company_info
         THEN [raised |-> TRUE, mappings |-> ms, ticker_to_cik |-> t2c, file |-> file,
               value |-> synced]
         ELSE LET new_mapping == CIKTickerMapping(cik, company_info["ticker"],
                                                  company_info["title"], t)
                  r == MappingCreate(ms, t2c, new_mapping)
              IN  IF r.raised
                  THEN [raised |-> TRUE, mappings |-> r.mappings,
                        ticker_to_cik |-> r.ticker_to_cik, file |-> file,
                        value |-> synced]
                  ELSE SyncMappings(i + 1, company_tickers, r.mappings, r.ticker_to_cik,
                                    r.mappings, Append(synced, new_mapping), t)

\* sync_cik_ticker_mappings on the directory the client returned.  Under a
\* "data" key the client stores one company's dict, whose iteration yields
\* its keys: item.get then raises.  file is cik_ticker_mappings.json, which
\* create and update rewrite from the whole dict.
sync_cik_ticker_mappings(company_tickers, ms, t2c, file, t) ==
    IF HasDataKey(company_tickers)
    THEN [raised |-> TRUE, mappings |-> ms, ticker_to_cik |-> t2c, file |-> file,
          value |-> <<>>]
    ELSE SyncMappings(1, company_tickers, ms, t2c, file, <<>>, t)

SyncDirectory ==
    \E force_refresh \in BOOLEAN, rs \in Responses, payload \in DirectoryPayloads :
        LET f == get_company_tickers(caches, cache_files, force_refresh, rs, payload, now)
            r == sync_cik_ticker_mappings(f.value, mappings, ticker_to_cik,
                                          disk.mappings, now)
        IN  /\ caches' = f.caches
            /\ cache_files' = f.files
            /\ mappings' = r.mappings
            /\ ticker_to_cik' = r.ticker_to_cik
            /\ ret' = Ret("sync_cik_ticker_mappings", <<>>, force_refresh, r.value,
                          r.raised, <<FetchRecord("company_tickers", <<"tickers">>, f)>>)
            /\ disk' = [disk EXCEPT !.mappings = r.file]
            /\ UNCHANGED <<now, companies, filings, metrics, cache, requests>>

-----------------------------------------------------------------------------
(* services/sec_data_processor.py: sync_company_data *)

\* sync_company_data after the mapping was found.  rs1 and payload1 are the
\* upstream's answers for the submissions, rs2 and payload2 for the company
\* facts.  raised stands for an exception leaving the handler.
SyncMapped(ticker, mapping, force_refresh, rs1, payload1, rs2, payload2) ==
    LET f1 == get_company_submissions(caches, cache_files, mapping.cik, force_refresh,
                                      rs1, payload1, now)
        fetch1 == FetchRecord("submissions", <<"submissions", StandardizeCik(mapping.cik)>>, f1)
        existing == company_get_by_ticker(companies, ticker)
        company == IF Truthy(existing)
                   THEN [existing EXCEPT !.name = mapping.company_name, !.cik = mapping.cik]
                   ELSE Company(ticker, mapping.company_name, mapping.cik)
        c == IF Truthy(existing)
             THEN CompanyUpdate(Put(companies, upper(ticker), company), company)
             ELSE CompanyCreate(companies, company)
    IN
    IF c.raised
    THEN [raised |-> TRUE, value |-> None, caches |-> f1.caches, files |-> f1.files,
          companies |-> c.companies, filings |-> filings, metrics |-> metrics,
          fetches |-> <<fetch1>>]
    ELSE LET p == process_company_filings(company, f1.value, force_refresh, filings) IN
    IF p.raised
    THEN [raised |-> TRUE, value |-> None, caches |-> f1.caches, files |-> f1.files,
          companies |-> c.companies, filings |-> p.filings, metrics |-> metrics,
          fetches |-> <<fetch1>>]
    ELSE LET f2 == get_company_facts(f1.caches, f1.files, company.cik, force_refresh,
                                     rs2, payload2, now)
             fetch2 == FetchRecord("company_facts", <<"facts", StandardizeCik(company.cik)>>, f2)
             m == process_company_metrics(company, f2.value, metrics)
         IN  [raised |-> m.raised, value |-> IF m.raised THEN None ELSE Some(company),
              caches |-> f2.caches, files |-> f2.files, companies |-> c.companies,
              filings |-> p.filings, metrics |-> m.metrics, fetches |-> <<fetch1, fetch2>>]

\* sync_company_data without the early return: mapping.cik is then read
\* from None and the handler raises
SyncCompanyData_NoReturn(ticker, mapping, force_refresh, rs1, payload1, rs2, payload2) ==
    IF ~Truthy(mapping)
    THEN [raised |-> TRUE, value |-> None, caches |-> caches, files |-> cache_files,
          companies |-> companies, filings |-> filings, metrics |-> metrics,
          fetches |-> <<>>]
    ELSE SyncMapped(ticker, mapping[1], force_refresh, rs1, payload1, rs2, payload2)

\* sync_company_data: None at once when the ticker has no mapping
SyncCompanyData(ticker, mapping, force_refresh, rs1, payload1, rs2, payload2) ==
    IF ~Truthy(mapping)
    THEN [raised |-> FALSE, value |-> None, caches |-> caches, files |-> cache_files,
          companies |-> companies, filings |-> filings, metrics |-> metrics,
          fetches |-> <<>>]
    ELSE SyncMapped(ticker, mapping[1], force_refresh, rs1, payload1, rs2, payload2)

SyncAction(ticker, force_refresh, r) ==
    /\ caches' = r.caches
    /\ cache_files' = r.files
    /\ companies' = r.companies
    /\ filings' = r.filings
    /\ metrics' = r.metrics
    /\ ret' = Ret("sync_company_data", ticker, force_refresh, r.value, r.raised, r.fetches)
    /\ disk' = Saved(mappings, r.companies, r.filings, r.metrics)
    /\ UNCHANGED <<now, mappings, ticker_to_cik, cache, requests>>

\* tickers passed to sync_company_data
SyncTickers == {<<"a">>, <<"c">>}

\* the upstream's first answers during a company sync
SyncResponses == {rs : rs \in {r \in Responses : r[1] \in {200, 429, RequestError}}}

SyncCompany ==
    \E ticker \in SyncTickers, force_refresh \in BOOLEAN,
       rs1 \in SyncResponses, payload1 \in SubmissionsPayloads,
       rs2 \in SyncResponses, payload2 \in FactsPayloads :
        SyncAction(ticker, force_refresh,
            SyncCompanyData(ticker, get_by_ticker(mappings, ticker_to_cik, ticker),
                            force_refresh, rs1, payload1, rs2, payload2))

-----------------------------------------------------------------------------
(* Specifications *)

\* an identity store as CIKTickerRepository loads it from its file
SeedMappings ==
    <<CIKTickerMapping(<<"7">>, <<"a">>, "Alpha Inc.", 0),
      CIKTickerMapping(<<"4", "2">>, <<"b">>, "Beta Corp", 0)>>

RECURSIVE LoadMappings(_, _, _)
LoadMappings(i, ms, t2c) ==
    IF i > Len(SeedMappings) THEN [mappings |-> ms, ticker_to_cik |-> t2c]
    ELSE LoadMappings(i + 1, Put(ms, SeedMappings[i].cik, SeedMappings[i]),
                      Put(t2c, upper(SeedMappings[i].ticker), SeedMappings[i].cik))

InitLoadedIdentity ==
    /\ mappings = LoadMappings(1, <<>>, <<>>).mappings
    /\ ticker_to_cik = LoadMappings(1, <<>>, <<>>).ticker_to_cik
    /\ companies = <<>>
    /\ filings = <<>>
    /\ metrics = <<>>
    /\ InitFiles

\* company syncs over a loaded identity store
Init == InitService /\ InitLoadedIdentity

Next == SyncCompany \/ Tick

Spec == Init /\ [][Next]_vars

\* company syncs whose upstream answers 200, with payloads that repeat an
\* observation's key or hold malformed records
OkResponses == {rs : rs \in {r \in SyncResponses : r[1] = 200}}

SyncMalformed ==
    \E force_refresh \in BOOLEAN, rs \in OkResponses,
       payload1 \in {Submissions1, Submissions3},
       payload2 \in {Facts1, Facts2, Facts3, Facts4} :
        SyncAction(<<"a">>, force_refresh,
            SyncCompanyData(<<"a">>, get_by_ticker(mappings, ticker_to_cik, <<"a">>),
                            force_refresh, rs, payload1, rs, payload2))

NextMalformed == SyncMalformed \/ Tick

SpecMalformed == Init /\ [][NextMalformed]_vars

\* directory syncs, from an empty or a loaded identity store
InitDir == InitService /\ (InitEmptyStores \/ InitLoadedIdentity)

NextDir == SyncDirectory \/ Tick

SpecDir == InitDir /\ [][NextDir]_vars

-----------------------------------------------------------------------------
(* repositories/: create and update called on their own *)

RepoOps == {"create", "update"}

\* the entities handed to the repositories: two keys per repository, the
\* first with two contents
RepoMappings ==
    {CIKTickerMapping(<<"7">>, ticker, "Alpha Inc.", 0) : ticker \in {<<"a">>, <<"z">>}}
    \cup {CIKTickerMapping(<<"4", "2">>, <<"b">>, "Beta Corp", 0)}

RepoCompanies ==
    {Company(<<"a">>, name, zfill(<<"7">>, 10)) : name \in {"Alpha Inc.", "Alpha"}}
    \cup {Company(<<"b">>, "Beta Corp", zfill(<<"4", "2">>, 10))}

RepoFilings ==
    {Filing("acc-1", "10-K", filing_date, 0, <<"A">>) : filing_date \in {0, 1}}
    \cup {Filing("acc-2", "10-Q", 1, 0, <<"A">>)}

RepoMetrics ==
    {FinancialMetric("NetIncome", value, 0, "annual", "NetIncomeLoss", None, <<"A">>) :
        value \in {1, 3}}
    \cup {FinancialMetric("NetIncome", 2, 1, "annual", "NetIncomeLoss", None, <<"A">>)}

\* CIKTickerRepository.create / update, with _save_to_file after the write
WriteMapping ==
    \E op \in RepoOps, mapping \in RepoMappings :
        LET r == IF op = "create" THEN MappingCreate(mappings, ticker_to_cik, mapping)
                 ELSE MappingUpdate(mappings, ticker_to_cik, mapping)
        IN  /\ mappings' = r.mappings
            /\ ticker_to_cik' = r.ticker_to_cik
            /\ disk' = IF r.raised THEN disk ELSE [disk EXCEPT !.mappings = r.mappings]
            /\ ret' = Ret(op, <<"mappings", mapping.cik>>, FALSE, None, r.raised, <<>>)
            /\ UNCHANGED <<now, caches, cache_files, companies, filings, metrics, cache,
                           requests>>

\* CompanyRepository.create / update, with _save_to_file after the write
WriteCompany ==
    \E op \in RepoOps, company \in RepoCompanies :
        LET r == IF op = "create" THEN CompanyCreate(companies, company)
                 ELSE CompanyUpdate(companies, company)
        IN  /\ companies' = r.companies
            /\ disk' = IF r.raised THEN disk ELSE [disk EXCEPT !.companies = r.companies]
            /\ ret' = Ret(op, <<"companies", company.ticker>>, FALSE, None, r.raised, <<>>)
            /\ UNCHANGED <<now, caches, cache_files, mappings, ticker_to_cik, filings,
                           metrics, cache, requests>>

\* FilingRepository.create / update, with _save_filing of the one filing
WriteFiling ==
    \E op \in RepoOps, filing \in RepoFilings :
        LET r == IF op = "create" THEN FilingCreate(filings, filing)
                 ELSE FilingUpdate(filings, filing)
        IN  /\ filings' = r.filings
            /\ disk' = IF r.raised THEN disk
                       ELSE [disk EXCEPT !.filings = Put(@, filing.accession_number, filing)]
            /\ ret' = Ret(op, <<"filings", filing.accession_number>>, FALSE, None,
                          r.raised, <<>>)
            /\ UNCHANGED <<now, caches, cache_files, mappings, ticker_to_cik, companies,
                           metrics, cache, requests>>

\* FinancialMetricRepository.create / update, with _save_metric of the one
\* metric
WriteMetric ==
    \E op \in RepoOps, metric \in RepoMetrics :
        LET r == IF op = "create" THEN MetricCreate(metrics, metric)
                 ELSE MetricUpdate(metrics, metric)
        IN  /\ metrics' = r.metrics
            /\ disk' = IF r.raised THEN disk
                       ELSE [disk EXCEPT !.metrics = Put(@, generate_metric_id(metric),
                                                         metric)]
            /\ ret' = Ret(op, <<"metrics", generate_metric_id(metric)>>, FALSE, None,
                          r.raised, <<>>)
            /\ UNCHANGED <<now, caches, cache_files, mappings, ticker_to_cik, companies,
                           filings, cache, requests>>

InitRepo == InitService /\ InitEmptyStores

NextRepo == WriteMapping \/ WriteCompany \/ WriteFiling \/ WriteMetric

SpecRepo == InitRepo /\ [][NextRepo]_vars

-----------------------------------------------------------------------------
(* services/sec_data_processor.py: the period of an observation *)

\* the frame markers and fiscal-period codes of an observation: absent,
\* quarterly, annual and one that names neither
Frames == {None, Some(<<"C", "Y", "1", "Q", "1">>), Some(<<"C", "Y", "1">>),
           Some(<<"1">>)}

FiscalPeriods == {None, Some("FY"), Some("Q2"), Some("H1")}

\* one entry of units["USD"]
Observation(val, end, frame, fp) ==
    LET base == [val |-> val, end |-> str(end)]
        framed == IF frame = None THEN base ELSE Put(base, "frame", frame[1])
    IN  IF fp = None THEN framed ELSE Put(framed, "fp", fp[1])

\* _process_metric_tag over a tag that holds one observation
ProcessObservation ==
    \E end \in 0..1, frame \in Frames, fp \in FiscalPeriods :
        LET value_data == Observation(1, end, frame, fp)
            r == process_metric_tag(Company(<<"a">>, "Alpha Inc.", zfill(<<"7">>, 10)),
                                    "NetIncome", "NetIncomeLoss",
                                    [units |-> [USD |-> <<value_data>>]], metrics)
        IN  /\ metrics' = r.metrics
            /\ disk' = Saved(mappings, companies, filings, r.metrics)
            /\ ret' = Ret("_process_metric_tag", value_data, FALSE, None, r.raised, <<>>)
            /\ UNCHANGED <<now, caches, cache_files, mappings, ticker_to_cik, companies,
                           filings, cache, requests>>

SpecPeriod == InitRepo /\ [][ProcessObservation]_vars

-----------------------------------------------------------------------------
(* api/: sync requests served side by side.  Every request gets repositories
   of its own from the dependencies, each loading its file when constructed;
   the dependencies are resolved before the handler runs, so another
   request can be served in between.  Of sync_company_data this follows the
   company repository, which the sync writes whatever the upstream answers;
   the identity file is written by no company sync, so every request loads
   the mappings held in `mappings`. *)

RequestIds == 1..MaxRequests

Idle == [pc |-> "idle", ticker |-> <<>>, companies |-> <<>>]

\* POST /companies/{ticker}/sync arrives
ReceiveSync ==
    \E i \in RequestIds, ticker \in {<<"a">>, <<"b">>} :
        /\ requests[i].pc \in {"idle", "done"}
        /\ requests' = [requests EXCEPT ![i] = [pc |-> "received", ticker |-> ticker,
                                                 companies |-> <<>>]]
        /\ ret' = Ret("receive", <<i, ticker>>, FALSE, None, FALSE, <<>>)
        /\ UNCHANGED <<now, caches, cache_files, stores, cache, disk>>

\* get_company_repository: CompanyRepository() loads companies.json
ConstructRepository ==
    \E i \in RequestIds :
        /\ requests[i].pc = "received"
        /\ requests' = [requests EXCEPT ![i].pc = "constructed",
                                        ![i].companies = disk.companies]
        /\ ret' = Ret("get_company_repository", <<i, requests[i].ticker>>, FALSE, None,
                      FALSE, <<>>)
        /\ UNCHANGED <<now, caches, cache_files, stores, cache, disk>>

\* the handler: sync_company_data creates or updates the Company in the
\* request's repository, which rewrites companies.json from its own dict
RunSync ==
    \E i \in RequestIds :
        LET ticker == requests[i].ticker
            own == requests[i].companies
            mapping == get_by_ticker(mappings, ticker_to_cik, ticker)
            existing == company_get_by_ticker(own, ticker)
            company == IF Truthy(existing)
                       THEN [existing EXCEPT !.name = mapping[1].company_name,
                                             !.cik = mapping[1].cik]
                       ELSE Company(ticker, mapping[1].company_name, mapping[1].cik)
            c == IF Truthy(existing)
                 THEN CompanyUpdate(Put(own, upper(ticker), company), company)
                 ELSE CompanyCreate(own, company)
        IN  /\ requests[i].pc = "constructed"
            /\ Truthy(mapping)
            /\ requests' = [requests EXCEPT ![i].pc = "done", ![i].companies = c.companies]
            /\ disk' = IF c.raised THEN disk ELSE [disk EXCEPT !.companies = c.companies]
            /\ ret' = Ret("sync_request", <<i, ticker>>, FALSE, None, c.raised, <<>>)
            /\ UNCHANGED <<now, caches, cache_files, stores, cache>>

\* a loaded identity store, an empty companies.json, no request yet
InitRequests ==
    /\ InitService
    /\ mappings = LoadMappings(1, <<>>, <<>>).mappings
    /\ ticker_to_cik = LoadMappings(1, <<>>, <<>>).ticker_to_cik
    /\ companies = <<>>
    /\ filings = <<>>
    /\ metrics = <<>>
    /\ disk = Saved(mappings, companies, filings, metrics)
    /\ requests = [i \in RequestIds |-> Idle]

NextRequests == ReceiveSync \/ ConstructRepository \/ RunSync

SpecRequests == InitRequests /\ [][NextRequests]_vars

-----------------------------------------------------------------------------
(* models/data_cache.py: a DataCache used on its own *)

CacheKeys == {"k1", "k2", "k3"}

CacheValues == {"v"}

\* the ttl argument of set: omitted, or timedelta(0)
CacheTtls == {None, Some(0)}

\* the caches constructed: with a default_ttl and no max_size, with a
\* max_size and no default_ttl, and with max_size=0
CacheConfigs == {DataCache(None, Some(1)), DataCache(Some(CacheMaxSize), None),
                 DataCache(Some(0), None)}

CacheRet(op, arg, value) == Ret(op, arg, FALSE, value, FALSE, <<>>)

DataCacheGet ==
    \E key \in CacheKeys :
        /\ ret' = CacheRet("get", [key |-> key], CacheGet(cache.entries, key, now))
        /\ UNCHANGED <<now, caches, cache_files, stores, cache, disk, requests>>

DataCacheSet ==
    \E key \in CacheKeys, value \in CacheValues, ttl \in CacheTtls :
        /\ cache' = [cache EXCEPT !.entries =
                         CacheSet(cache.entries, key, value, ttl, cache.default_ttl,
                                  cache.max_size, now)]
        /\ ret' = CacheRet("set", [key |-> key, value |-> value, ttl |-> ttl], None)
        /\ UNCHANGED <<now, caches, cache_files, stores, disk, requests>>

DataCacheDelete ==
    \E key \in CacheKeys :
        LET r == CacheDelete(cache.entries, key) IN
        /\ cache' = [cache EXCEPT !.entries = r.entries]
        /\ ret' = CacheRet("delete", [key |-> key], r.value)
        /\ UNCHANGED <<now, caches, cache_files, stores, disk, requests>>

DataCacheClear ==
    /\ cache' = [cache EXCEPT !.entries = CacheClear(cache.entries)]
    /\ ret' = CacheRet("clear", <<>>, None)
    /\ UNCHANGED <<now, caches, cache_files, stores, disk, requests>>

InitCache ==
    /\ now = 0
    /\ caches = EmptyCaches
    /\ cache_files = EmptyCaches
    /\ InitEmptyStores
    /\ cache \in CacheConfigs
    /\ ret = Ret("init", <<>>, FALSE, <<>>, FALSE, <<>>)

NextCache == DataCacheGet \/ DataCacheSet \/ DataCacheDelete \/ DataCacheClear \/ Tick

SpecCache == InitCache /\ [][NextCache]_vars

-----------------------------------------------------------------------------
(* services/financial_analysis.py: ratios over the stored metrics *)

\* FinancialMetricRepository.find_by_company_and_metric: metric_name is the
\* name asked for or None, period a MetricPeriod or None; a stored name is
\* a string and never equals None
find_by_company_and_metric(mts, company_id, metric_name, period) ==
    LET results == {mts[id] : id \in {i \in DOMAIN mts :
                        /\ mts[i].company_id = company_id
                        /\ metric_name # None
                        /\ mts[i].name = metric_name[1]}}
    IN  IF period # None THEN {m \in results : m.period = period[1]} ELSE results

\* `if name not in latest_metrics or metric.date > latest_metrics[name].date`
LatestMetrics(found) ==
    [name \in {m.name : m \in found} |->
        CHOOSE m \in found :
            m.name = name /\ \A o \in found : o.name = name => o.date <= m.date]

\* one ratio block: both operands among the latest metrics, denominator
\* not 0; the quotient is kept as numerator and denominator
AddRatio(ratios, latest_metrics, ratio, numerator, denominator) ==
    IF /\ numerator \in DOMAIN latest_metrics
       /\ denominator \in DOMAIN latest_metrics
       /\ latest_metrics[denominator].value # 0
    THEN Put(ratios, ratio, [num |-> latest_metrics[numerator].value,
                             den |-> latest_metrics[denominator].value])
    ELSE ratios

\* FinancialAnalysisService.calculate_financial_ratios
calculate_financial_ratios(cs, mts, ticker) ==
    LET company == company_get_by_ticker(cs, ticker) IN
    IF ~Truthy(company) THEN <<>>
    ELSE LET found == find_by_company_and_metric(mts, company.ticker, None,
                                                 Some("annual"))
             latest_metrics == LatestMetrics(found)
             roa == AddRatio(<<>>, latest_metrics, "ROA", "NetIncome", "TotalAssets")
             roe == AddRatio(roa, latest_metrics, "ROE", "NetIncome",
                             "StockholdersEquity")
             dte == AddRatio(roe, latest_metrics, "DebtToEquity", "TotalLiabilities",
                             "StockholdersEquity")
         IN  AddRatio(dte, latest_metrics, "ProfitMargin", "NetIncome", "Revenue")

RECURSIVE SortByDate_Descending(_)
SortByDate_Descending(found) ==
    IF found = {} THEN <<>>
    ELSE LET first == CHOOSE m \in found : \A o \in found : m.date >= o.date
         IN  <<first>> \o SortByDate_Descending(found \ {first})

\* `metrics.sort(key=lambda m: m.date)`: the metrics of one company, name
\* and period have distinct dates (the date is part of the metric id), so
\* the stable sort has one result
RECURSIVE SortByDate(_)
SortByDate(found) ==
    IF found = {} THEN <<>>
    ELSE LET first == CHOOSE m \in found : \A o \in found : m.date <= o.date
         IN  <<first>> \o SortByDate(found \ {first})

\* FinancialMetricRepository.get_time_series: (date, value) pairs
get_time_series(mts, company_id, metric_name, period) ==
    LET sorted == SortByDate(find_by_company_and_metric(mts, company_id,
                                                        Some(metric_name), Some(period)))
    IN  [i \in 1..Len(sorted) |-> [date |-> sorted[i].date, value |-> sorted[i].value]]

\* FinancialAnalysisService.get_metric_time_series
get_metric_time_series(cs, mts, ticker, metric_name, period) ==
    LET company == company_get_by_ticker(cs, ticker) IN
    IF ~Truthy(company) THEN <<>>
    ELSE get_time_series(mts, company.ticker, metric_name, period)

abs(x) == IF x < 0 THEN 0 - x ELSE x

\* float('inf') and float('-inf'), spelled as quotients by 0
Inf == [num |-> 1, den |-> 0]

NegInf == [num |-> 0 - 1, den |-> 0]

calculate_growth_rates_NoAbs(cs, mts, ticker, metric_name, period) ==
    LET time_series == get_metric_time_series(cs, mts, ticker, metric_name, period) IN
    IF Len(time_series) < 2 THEN <<>>
    ELSE [j \in 1..(Len(time_series) - 1) |->
            [date |-> time_series[j + 1].date,
             growth_rate |->
                IF time_series[j].value = 0
                THEN IF time_series[j + 1].value > 0 THEN Inf ELSE NegInf
                ELSE [num |-> time_series[j + 1].value - time_series[j].value,
                      den |-> time_series[j].value]]]

\* FinancialAnalysisService.calculate_growth_rates; a rate is kept as the
\* quotient (current - previous) / abs(previous)
calculate_growth_rates(cs, mts, ticker, metric_name, period) ==
    LET time_series == get_metric_time_series(cs, mts, ticker, metric_name, period) IN
    IF Len(time_series) < 2 THEN <<>>
    ELSE [j \in 1..(Len(time_series) - 1) |->
            LET current_value == time_series[j + 1].value
                previous_value == time_series[j].value
            IN  [date |-> time_series[j + 1].date,
                 growth_rate |->
                    IF previous_value = 0
                    THEN IF current_value > 0 THEN Inf ELSE NegInf
                    ELSE [num |-> current_value - previous_value,
                          den |-> abs(previous_value)]]]

calculate_cagr_FullSpan(cs, mts, ticker, metric_name, years) ==
    LET time_series == get_metric_time_series(cs, mts, ticker, metric_name, "annual")
        n == Len(time_series)
    IN  IF n < 2 THEN None
        ELSE IF time_series[1].value <= 0 \/ time_series[n].value <= 0 THEN None
             ELSE Some([end_value |-> time_series[n].value,
                        start_value |-> time_series[1].value,
                        actual_years |-> n - 1])

\* FinancialAnalysisService.calculate_cagr with years >= 1; the result
\* (end_value / start_value) ** (1 / actual_years) - 1 is kept as its three
\* operands
calculate_cagr(cs, mts, ticker, metric_name, years) ==
    LET time_series == get_metric_time_series(cs, mts, ticker, metric_name, "annual")
        n == Len(time_series)
    IN  IF n < 2 THEN None
        ELSE LET start_value == IF n <= years THEN time_series[1].value
                                ELSE time_series[n - years].value
                 end_value == time_series[n].value
                 actual_years == IF n <= years THEN n - 1 ELSE years
             IN  IF start_value <= 0 \/ end_value <= 0 THEN None
                 ELSE Some([end_value |-> end_value, start_value |-> start_value,
                            actual_years |-> actual_years])

\* the default of calculate_cagr's years parameter
DefaultYears == 5

\* FinancialAnalysisService.compare_companies from the i-th ticker on
RECURSIVE CompareFrom(_, _, _, _, _, _)
CompareFrom(i, tickers, metric_name, cs, mts, results) ==
    IF i > Len(tickers) THEN results
    ELSE LET ticker == tickers[i]
             company == company_get_by_ticker(cs, ticker)
             time_series == get_metric_time_series(cs, mts, ticker, metric_name, "annual")
             n == Len(time_series)
             growth_rate ==
                IF n >= 2 /\ time_series[n - 1].value # 0
                THEN Some([num |-> time_series[n].value - time_series[n - 1].value,
                           den |-> abs(time_series[n - 1].value)])
                ELSE None
         IN  IF ~Truthy(company) \/ n = 0
             THEN CompareFrom(i + 1, tickers, metric_name, cs, mts, results)
             ELSE CompareFrom(i + 1, tickers, metric_name, cs, mts,
                    Put(results, ticker,
                        [company_name |-> company.name,
                         latest_value |-> time_series[n].value,
                         latest_date |-> time_series[n].date,
                         growth_rate |-> growth_rate,
                         cagr |-> calculate_cagr(cs, mts, ticker, metric_name, DefaultYears),
                         time_series |-> time_series]))

compare_companies(cs, mts, tickers, metric_name) ==
    CompareFrom(1, tickers, metric_name, cs, mts, <<>>)

\* the metrics stored: for company A net income of two years, total assets
\* of three years with zero, negative and positive values, a quarterly
\* figure and the equity; for company B one net income
RatioMetrics ==
    {FinancialMetric("NetIncome", 1, 0, "annual", "NetIncomeLoss", None, <<"A">>),
     FinancialMetric("NetIncome", 3, 1, "annual", "NetIncomeLoss", None, <<"A">>),
     FinancialMetric("TotalAssets", 5, 1, "quarterly", "Assets", None, <<"A">>),
     FinancialMetric("StockholdersEquity", 2, 0, "annual", "StockholdersEquity", None,
                     <<"A">>),
     FinancialMetric("TotalAssets", 8, 2, "annual", "Assets", None, <<"A">>),
     FinancialMetric("NetIncome", 2, 0, "annual", "NetIncomeLoss", None, <<"B">>)}
    \cup {FinancialMetric("TotalAssets", value, 0, "annual", "Assets", None, <<"A">>) :
             value \in {0, 2}}
    \cup {FinancialMetric("TotalAssets", value, 1, "annual", "Assets", None, <<"A">>) :
             value \in {0 - 4, 0, 4}}

\* the metric repository written as the sync writes it: create, and update
\* when the id is already stored
StoreMetric ==
    \E metric \in RatioMetrics :
        LET created == MetricCreate(metrics, metric)
            r == IF created.raised THEN MetricUpdate(metrics, metric) ELSE created
        IN  /\ metrics' = r.metrics
            /\ ret' = Ret("store_metric", generate_metric_id(metric), FALSE, None, FALSE, <<>>)
            /\ disk' = Saved(mappings, companies, filings, r.metrics)
            /\ UNCHANGED <<now, caches, cache_files, mappings, ticker_to_cik, companies,
                           filings, cache, requests>>

CalculateRatios ==
    \E ticker \in SyncTickers :
        /\ ret' = Ret("calculate_financial_ratios", ticker, FALSE,
                       calculate_financial_ratios(companies, metrics, ticker), FALSE, <<>>)
        /\ UNCHANGED <<now, caches, cache_files, stores, cache, disk, requests>>

\* the ticker lists and the metric names the analysis is asked about
CompareRequests ==
    {<<>>, <<<<"a">>>>, <<<<"c">>, <<"a">>>>, <<<<"a">>, <<"b">>, <<"c">>>>,
     <<<<"B">>, <<"b">>>>}

AnalysisMetrics == {"NetIncome", "TotalAssets"}

\* the years a CAGR is asked over
CagrYears == {1, 2, DefaultYears}

CompareCompanies ==
    \E tickers \in CompareRequests, metric_name \in AnalysisMetrics :
        /\ ret' = Ret("compare_companies", <<tickers, metric_name>>, FALSE,
                       compare_companies(companies, metrics, tickers, metric_name),
                       FALSE, <<>>)
        /\ UNCHANGED <<now, caches, cache_files, stores, cache, disk, requests>>

GrowthRates ==
    \E ticker \in {<<"a">>, <<"c">>}, metric_name \in AnalysisMetrics,
       period \in {"annual", "quarterly"} :
        /\ ret' = Ret("calculate_growth_rates", <<ticker, metric_name, period>>, FALSE,
                       calculate_growth_rates(companies, metrics, ticker, metric_name,
                                              period), FALSE, <<>>)
        /\ UNCHANGED <<now, caches, cache_files, stores, cache, disk, requests>>

Cagr ==
    \E ticker \in {<<"a">>, <<"c">>}, metric_name \in AnalysisMetrics,
       years \in CagrYears :
        /\ ret' = Ret("calculate_cagr", <<ticker, metric_name, years>>, FALSE,
                       calculate_cagr(companies, metrics, ticker, metric_name, years),
                       FALSE, <<>>)
        /\ UNCHANGED <<now, caches, cache_files, stores, cache, disk, requests>>

\* a company store holding companies A and B, no metrics yet
InitRatios ==
    /\ InitService
    /\ mappings = <<>>
    /\ ticker_to_cik = <<>>
    /\ companies = CompanyCreate(
                      CompanyCreate(<<>>, Company(<<"a">>, "Alpha Inc.",
                                                  zfill(<<"7">>, 10))).companies,
                      Company(<<"b">>, "Beta Corp", zfill(<<"4", "2">>, 10))).companies
    /\ filings = <<>>
    /\ metrics = <<>>
    /\ InitFiles

NextRatios == StoreMetric \/ CalculateRatios \/ CompareCompanies \/ GrowthRates \/ Cagr

SpecRatios == InitRatios /\ [][NextRatios]_vars

-----------------------------------------------------------------------------
(* CIK normalization applied on its own *)

\* the spellings of a CIK: leading zeros in front of a few digit strings,
\* of nothing, and of a string that is not all digits
CikSuffixes == {<<>>, <<"7">>, <<"4", "2">>, <<"7", "0">>, <<"a">>}

CikInputs == {[i \in 1..z |-> "0"] \o s : z \in 0..MaxCikZeros, s \in CikSuffixes}

NormalizeRet(op, cik, once, twice, found) ==
    Ret(op, cik, FALSE, [once |-> once, twice |-> twice, found |-> found], FALSE, <<>>)

\* the cache key part get_company_submissions builds from its cik argument
NormalizeClient ==
    \E cik \in CikInputs :
        /\ ret' = NormalizeRet("client_cik", cik, StandardizeCik(cik),
                                StandardizeCik(StandardizeCik(cik)), None)
        /\ UNCHANGED <<now, caches, cache_files, stores, cache, disk, requests>>

\* the cik field of a CIKTickerMapping constructed with that cik
NormalizeMapping ==
    \E cik \in CikInputs :
        LET once == CIKTickerMapping(cik, <<"A">>, "Alpha Inc.", now).cik IN
        /\ ret' = NormalizeRet("mapping_cik", cik, once,
                                CIKTickerMapping(once, <<"A">>, "Alpha Inc.", now).cik, None)
        /\ UNCHANGED <<now, caches, cache_files, stores, cache, disk, requests>>

\* the key get_by_cik looks up and the record it returns
NormalizeLookup ==
    \E cik \in CikInputs :
        /\ ret' = NormalizeRet("get_by_cik", cik, StandardizeCik(cik),
                                StandardizeCik(StandardizeCik(cik)),
                                get_by_cik(mappings, cik))
        /\ UNCHANGED <<now, caches, cache_files, stores, cache, disk, requests>>

NormalizeOps == {"client_cik", "mapping_cik", "get_by_cik"}

InitCik == InitService /\ InitLoadedIdentity

NextCik == NormalizeClient \/ NormalizeMapping \/ NormalizeLookup

SpecCik == InitCik /\ [][NextCik]_vars

-----------------------------------------------------------------------------

RateLimited == {429, 403}

\* the fetch of the step just taken, when that step was a fetch operation
IsFetch(r) == r.op \in FetchOps

\* C7: with force_refresh false and an unexpired entry cached under the key,
\* a fetch operation returns the cached value and issues no HTTP request,
\* whatever the cached value is (an empty payload included).
C7_CacheHitNoRequest ==
    [][(/\ IsFetch(ret')
        /\ ~ret'.force_refresh
        /\ CacheGet(caches[ret'.fetches[1].name], ret'.arg, now) # None)
       => (/\ ret'.value = CacheGet(caches[ret'.fetches[1].name], ret'.arg, now)[1]
           /\ ret'.fetches[1].gets = 0)]_vars

\* C8: a 429 or 403 answer is followed by another GET, and when a retry
\* within max_retries receives 200 the request returns status 200.
C8_RetryReaches200 ==
    IsFetch(ret) =>
        \A k \in 2..(API_CONFIG.MAX_RETRIES + 1) :
            LET f == ret.fetches[1] IN
            (/\ f.status # None
             /\ \A j \in 1..(k - 1) : f.responses[j] \in RateLimited
             /\ f.responses[k] = 200)
            => (f.status = Some(200) /\ f.gets = k /\ f.data # None)

\* C9: an error status other than 429 and 403 ends the request after exactly
\* one GET, with that status and no data.
C9_OtherErrorNoRetry ==
    IsFetch(ret) =>
        LET f == ret.fetches[1] IN
        (f.status # None /\ f.responses[1] \notin (RateLimited \cup {200, RequestError}))
        => (f.gets = 1 /\ f.status = Some(f.responses[1]) /\ f.data = None)

C9_Witness ==
    /\ IsFetch(ret)
    /\ ret.fetches[1].status = Some(404)
    /\ ret.fetches[1].gets = 1

\* C30: every _make_request call ends, after at most max_retries + 1 GETs,
\* with (200, payload) or with a status and no data, whatever the upstream
\* answers or raises; the fetch operation built on it returns a value, the
\* payload, a cached value or the empty result, and raises nothing.
C30_RequestEndsWithValue ==
    IsFetch(ret) =>
        LET f == ret.fetches[1]
            entries == caches[f.name]
        IN  /\ ~ret.raised
            /\ f.gets \in 0..(API_CONFIG.MAX_RETRIES + 1)
            /\ f.status # None
               => /\ f.gets >= 1
                  /\ \/ f.status = Some(200) /\ f.data # None
                     \/ f.status # Some(200) /\ f.data = None
            /\ (f.status = Some(200) /\ ret.op # "get_company_tickers")
               => ret.value = f.data[1]
            /\ f.status # Some(200)
               => ret.value \in {<<>>} \cup {entries[k].data : k \in DOMAIN entries}

\* a request whose GET raised ended with status 0 and the empty result
C30_Witness ==
    /\ IsFetch(ret)
    /\ ret.fetches[1].responses[1] = RequestError
    /\ ret.fetches[1].status = Some(0)
    /\ ret.value = <<>>

FetchFailed(f) == f.status # None /\ (f.status # Some(200) \/ f.data = None)

\* C10 as stated: a failed fetch returns the data of whatever entry the cache
\* holds for the key, expired or not, and the empty result only when the
\* cache holds no entry for the key.
C10_FallbackAnyEntry ==
    [][(IsFetch(ret') /\ FetchFailed(ret'.fetches[1]))
       => LET entries == caches[ret'.fetches[1].name] IN
          ret'.value = (IF ret'.arg \in DOMAIN entries THEN entries[ret'.arg].data ELSE <<>>)]_vars

\* C10 amended: a failed fetch returns the cached value when the cache holds
\* an unexpired entry for the key, with or without force_refresh, and the
\* empty result when it holds no entry or only an expired one.
C10_FallbackUnexpired ==
    [][(IsFetch(ret') /\ FetchFailed(ret'.fetches[1]))
       => LET entries == caches[ret'.fetches[1].name]
              live == /\ ret'.arg \in DOMAIN entries
                      /\ (entries[ret'.arg].expires_at = None
                          \/ now <= entries[ret'.arg].expires_at[1]) IN
          ret'.value = (IF live THEN entries[ret'.arg].data ELSE <<>>)]_vars

\* a forced fetch that failed and was answered from the cache
C10_Witness ==
    /\ IsFetch(ret)
    /\ FetchFailed(ret.fetches[1])
    /\ ret.force_refresh
    /\ Truthy(ret.value)
    /\ ret.arg \in DOMAIN caches[ret.fetches[1].name]

-----------------------------------------------------------------------------
(* Properties of the sync orchestrator *)

IsSync(r) == r.op = "sync_company_data"

IsDirectorySync(r) == r.op = "sync_cik_ticker_mappings"

Count(store) == Cardinality(DOMAIN store)

\* C1: a sync of a ticker that directly follows a sync of the same ticker and
\* consumes the same submissions and facts leaves the number of stored
\* filings and the number of stored metrics as the first sync left them,
\* with or without force_refresh.
C1_ResyncKeepsCounts ==
    [][(/\ IsSync(ret) /\ IsSync(ret')
        /\ ret'.arg = ret.arg
        /\ Len(ret.fetches) = 2 /\ Len(ret'.fetches) = 2
        /\ ret'.fetches[1].value = ret.fetches[1].value
        /\ ret'.fetches[2].value = ret.fetches[2].value)
       => (Count(filings') = Count(filings) /\ Count(metrics') = Count(metrics))]_vars

\* a re-sync served from both caches, with filings and metrics stored
C1_Witness ==
    /\ IsSync(ret)
    /\ ret.value # None
    /\ Len(ret.fetches) = 2
    /\ ret.fetches[1].gets = 0
    /\ ret.fetches[2].gets = 0
    /\ Count(filings) >= 2
    /\ Count(metrics) >= 2

\* C2: no sync stores or rewrites a filing whose filing date is after the
\* time of the sync.
C2_NoFutureFilingStored ==
    [][\A a \in DOMAIN filings' :
          (a \notin DOMAIN filings \/ filings'[a] # filings[a])
          => filings'[a].filing_date <= now]_vars

\* C3: when the submissions fetch fails and nothing cached stands in for it,
\* the sync returns no Company and stores nothing.
C3_FailedSubmissionsAborts ==
    [][(/\ IsSync(ret')
        /\ Len(ret'.fetches) >= 1
        /\ FetchFailed(ret'.fetches[1])
        /\ ~Truthy(ret'.fetches[1].value))
       => (ret'.value = None /\ UNCHANGED <<companies, filings, metrics>>)]_vars

\* the tickers of the stored identity records
StoredTickers == {mappings[c].ticker : c \in DOMAIN mappings}

\* C4: a sync for a ticker without an identity record returns None without
\* raising, issues no fetch and changes neither the caches nor the stores.
C4_UnknownTickerFailsFast ==
    [][(IsSync(ret') /\ upper(ret'.arg) \notin StoredTickers)
       => (/\ ret'.value = None
           /\ ~ret'.raised
           /\ ret'.fetches = <<>>
           /\ UNCHANGED <<caches, cache_files, stores>>)]_vars

C4_Witness ==
    /\ IsSync(ret)
    /\ upper(ret.arg) \notin StoredTickers
    /\ ret.value = None
    /\ ret.fetches = <<>>
    /\ Count(companies) > 0

\* C5: a directory sync that received the flat directory with status 200
\* does not raise and leaves, for every entry, an active identity record
\* with the CIK padded to 10 digits and the ticker uppercased.
C5_LegacyDirectorySynced ==
    (/\ IsDirectorySync(ret)
     /\ ret.fetches[1].status = Some(200)
     /\ ret.fetches[1].data = Some(Directory1))
    => (/\ ~ret.raised
        /\ \A i \in 1..Len(Directory1) :
              LET cik == zfill(str(Directory1[i].cik_str), 10) IN
              /\ cik \in DOMAIN mappings
              /\ mappings[cik].is_active
              /\ mappings[cik].cik = cik
              /\ mappings[cik].ticker = upper(Directory1[i].ticker))

\* C6: no two active identity records carry the same ticker.
C6_ActiveTickerUnique ==
    \A c1, c2 \in DOMAIN mappings :
        (c1 # c2 /\ mappings[c1].is_active /\ mappings[c2].is_active)
        => mappings[c1].ticker # mappings[c2].ticker

-----------------------------------------------------------------------------
(* Properties of the cache writes of the fetch operations *)

\* C11: a fetch answered 200 leaves, under its key, an entry written at the
\* time of the call that holds exactly the value returned to the caller, and
\* the cache files equal the caches when it returns; a fetch whose request
\* failed leaves the entry of its key (or its absence) as it was.
C11_SuccessCachedAndSaved ==
    [][(IsFetch(ret') /\ ret'.fetches[1].status # None)
       => LET name == ret'.fetches[1].name
              key == ret'.arg
          IN  IF ret'.fetches[1].status = Some(200)
              THEN /\ key \in DOMAIN caches'[name]
                   /\ caches'[name][key].data = ret'.value
                   /\ caches'[name][key].created_at = now
                   /\ cache_files' = caches'
              ELSE /\ (key \in DOMAIN caches'[name]) = (key \in DOMAIN caches[name])
                   /\ key \in DOMAIN caches[name]
                      => caches'[name][key] = caches[name][key]]_vars

\* a forced fetch answered 200 after the clock has moved on, cached and saved
C11_Witness ==
    /\ IsFetch(ret)
    /\ ret.force_refresh
    /\ ret.fetches[1].status = Some(200)
    /\ now > 0
    /\ caches[ret.fetches[1].name][ret.arg].data = ret.value
    /\ caches[ret.fetches[1].name][ret.arg].created_at = now
    /\ cache_files = caches

-----------------------------------------------------------------------------
(* Properties of DataCache *)

IsCacheOp(r, op) == r.op = op

\* C12: get returns None exactly when the key has no entry or its entry has
\* an expires_at that the clock has passed (now > expires_at), and the stored
\* value otherwise; get and the passing of time leave the cache as it is,
\* so an expired entry stays stored; delete returns whether an entry
\* was stored, expired or not, and removes just that entry.
C12_LazyExpiry ==
    [][/\ IsCacheOp(ret', "get") =>
            LET key == ret'.arg.key
                absent == \/ key \notin DOMAIN cache.entries
                          \/ /\ cache.entries[key].expires_at # None
                             /\ now > cache.entries[key].expires_at[1]
            IN  /\ (ret'.value = None) = absent
                /\ ~absent => ret'.value = Some(cache.entries[key].data)
                /\ cache' = cache
       /\ IsCacheOp(ret', "tick") => cache' = cache
       /\ IsCacheOp(ret', "delete") =>
            LET key == ret'.arg.key IN
            /\ ret'.value = (key \in DOMAIN cache.entries)
            /\ DOMAIN cache'.entries = (DOMAIN cache.entries) \ {key}
            /\ \A k \in DOMAIN cache'.entries :
                  /\ cache'.entries[k].data = cache.entries[k].data
                  /\ cache'.entries[k].created_at = cache.entries[k].created_at
                  /\ cache'.entries[k].expires_at = cache.entries[k].expires_at]_vars

\* a get that returned None for an entry that is stored and expired
C12_Witness ==
    /\ IsCacheOp(ret, "get")
    /\ ret.value = None
    /\ ret.arg.key \in DOMAIN cache.entries
    /\ cache.entries[ret.arg.key].expires_at # None
    /\ now > cache.entries[ret.arg.key].expires_at[1]

\* the created_at the entries have once set has stored the new entry
CreatedAfterSet(entries, key, k, t) == IF k = key THEN t ELSE entries[k].created_at

\* C13: on a cache with max_size configured, a set that makes the entries
\* exceed max_size removes exactly one entry, one whose created_at is the
\* smallest of all entries, a set that does not exceed max_size removes
\* none, and the number of entries never exceeds max_size.
C13_EvictOldestOnly ==
    [][(IsCacheOp(ret', "set") /\ cache.max_size # None) =>
          LET key == ret'.arg.key
              stored == (DOMAIN cache.entries) \cup {key}
          IN  /\ IF Cardinality(stored) > cache.max_size[1]
                 THEN \E victim \in stored :
                         /\ DOMAIN cache'.entries = stored \ {victim}
                         /\ \A k \in stored :
                               CreatedAfterSet(cache.entries, key, victim, now)
                                   <= CreatedAfterSet(cache.entries, key, k, now)
                 ELSE DOMAIN cache'.entries = stored
              /\ Cardinality(DOMAIN cache'.entries) <= cache.max_size[1]]_vars

\* C14: a get that directly follows set(k, v, ttl=0) for the same key, the
\* clock reading what it read during the set, returns None.
C14_ZeroTtlAbsentAtOnce ==
    [][(/\ IsCacheOp(ret, "set")
        /\ ret.arg.ttl = Some(0)
        /\ IsCacheOp(ret', "get")
        /\ ret'.arg.key = ret.arg.key)
       => ret'.value = None]_vars

\* C15: set stores the entry with expires_at = now + ttl when a ttl is
\* passed, else now + default_ttl when the cache has one, else without
\* expiry; get returns the value of an entry stored without expiry at
\* whatever time it is called.
C15_ExpiryAssignment ==
    [][/\ IsCacheOp(ret', "set") =>
            LET key == ret'.arg.key
                ttl == ret'.arg.ttl
            IN  /\ key \in DOMAIN cache'.entries
                /\ cache'.entries[key].data = ret'.arg.value
                /\ cache'.entries[key].expires_at =
                      (IF ttl # None THEN Some(now + ttl[1])
                       ELSE IF cache.default_ttl # None
                            THEN Some(now + cache.default_ttl[1])
                            ELSE None)
       /\ IsCacheOp(ret', "get") =>
            LET key == ret'.arg.key IN
            (key \in DOMAIN cache.entries /\ cache.entries[key].expires_at = None)
            => ret'.value = Some(cache.entries[key].data)]_vars

\* a get, after the clock has moved on, of an entry stored without expiry
C15_Witness ==
    /\ IsCacheOp(ret, "get")
    /\ ret.arg.key \in DOMAIN cache.entries
    /\ cache.entries[ret.arg.key].expires_at = None
    /\ cache.entries[ret.arg.key].created_at < now
    /\ ret.value = Some(cache.entries[ret.arg.key].data)

-----------------------------------------------------------------------------
(* Properties of CIK normalization *)

IsNormalize(r) == r.op \in NormalizeOps

DecimalDigits == {"0", "1", "2", "3", "4", "5", "6", "7", "8", "9"}

AllDigit(s) == Len(s) > 0 /\ \A i \in 1..Len(s) : s[i] \in DecimalDigits

\* s without its leading zeros
RECURSIVE StripZeros(_)
StripZeros(s) == IF Len(s) > 0 /\ s[1] = "0" THEN StripZeros(Tail(s)) ELSE s

-----------------------------------------------------------------------------
(* Properties of the extraction *)

\* the us-gaap facts a sync received from its facts fetch
SyncedUsGaap(r) ==
    IF Len(r.fetches) = 2 /\ Truthy(r.fetches[2].value)
    THEN r.fetches[2].value.facts["us-gaap"]
    ELSE <<>>

\* the metrics a step stored or rewrote
Written(old, new) == {id \in DOMAIN new : id \notin DOMAIN old \/ new[id] # old[id]}

\* tag is the first alias of the canonical metric name present in us_gaap
FirstAliasPresent(name, tag, us_gaap) ==
    \E i \in 1..Len(COMMON_METRICS) :
        /\ COMMON_METRICS[i].name = name
        /\ \E j \in 1..Len(COMMON_METRICS[i].tags) :
              /\ COMMON_METRICS[i].tags[j] = tag
              /\ tag \in DOMAIN us_gaap
              /\ \A k \in 1..(j - 1) : COMMON_METRICS[i].tags[k] \notin DOMAIN us_gaap

\* C17: every metric a sync stores or rewrites carries, as its source tag,
\* the first alias of its canonical name that is present in the us-gaap
\* facts the sync received (so no observation of a later alias is stored),
\* and a sync that received SalesRevenueNet and neither Revenue nor Revenues
\* stores a Revenue metric sourced from SalesRevenueNet.
C17_FirstAliasWins ==
    [][(IsSync(ret') /\ ~ret'.raised) =>
          LET us_gaap == SyncedUsGaap(ret') IN
          /\ \A id \in Written(metrics, metrics') :
                FirstAliasPresent(metrics'[id].name, metrics'[id].xbrl_tag, us_gaap)
          /\ FirstAliasPresent("Revenue", "SalesRevenueNet", us_gaap)
             => \E id \in DOMAIN metrics' :
                   /\ metrics'[id].name = "Revenue"
                   /\ metrics'[id].xbrl_tag = "SalesRevenueNet"
                   /\ metrics'[id].company_id = upper(ret'.arg)]_vars

\* a sync that received Revenues and SalesRevenueNet and stored Revenue from
\* Revenues only
C17_Witness ==
    /\ IsSync(ret)
    /\ {"Revenues", "SalesRevenueNet"} \subseteq DOMAIN SyncedUsGaap(ret)
    /\ \E id \in DOMAIN metrics : metrics[id].name = "Revenue"
    /\ \A id \in DOMAIN metrics :
          metrics[id].name = "Revenue" => metrics[id].xbrl_tag = "Revenues"

\* the entries of a submissions payload that are periodic reports with
\* dates that parse
ValidFilings(submissions) ==
    IF ~Truthy(submissions) THEN {}
    ELSE LET recent == submissions.filings.recent IN
         {recent.accessionNumber[i] : i \in
             {j \in 1..Len(recent.accessionNumber) :
                 /\ recent.form[j] \in {"10-K", "10-Q"}
                 /\ AllDigit(recent.filingDate[j])
                 /\ AllDigit(recent.reportDate[j])}}

\* the observations of a us-gaap tag that carry a value and an end date
\* that parses
ValidObservations(us_gaap, tag) ==
    LET values == us_gaap[tag].units["USD"] IN
    {values[i] : i \in {j \in 1..Len(values) :
        /\ "val" \in DOMAIN values[j]
        /\ "end" \in DOMAIN values[j]
        /\ AllDigit(values[j]["end"])}}

\* C18: a sync of a mapped ticker does not raise and returns the Company
\* whatever malformed records its payloads hold, every periodic report of
\* the received submissions whose dates parse is in the filing store, and
\* every Assets observation of the received facts that carries a value and
\* an end date that parses is in the metric store.
C18_MalformedRecordSkipped ==
    [][(IsSync(ret') /\ Len(ret'.fetches) >= 1) =>
          /\ ~ret'.raised
          /\ ret'.value # None
          /\ ValidFilings(ret'.fetches[1].value) \subseteq DOMAIN filings'
          /\ (Len(ret'.fetches) = 2 /\ "Assets" \in DOMAIN SyncedUsGaap(ret'))
             => \A o \in ValidObservations(SyncedUsGaap(ret'), "Assets") :
                   \E id \in DOMAIN metrics' :
                       /\ metrics'[id].name = "TotalAssets"
                       /\ metrics'[id].date = int(o["end"])
                       /\ metrics'[id].value = o["val"]]_vars

\* the index of accession number a in a submissions payload
EntryOf(submissions, a) ==
    CHOOSE i \in 1..Len(submissions.filings.recent.accessionNumber) :
        submissions.filings.recent.accessionNumber[i] = a

\* the accession numbers a sync received, as valid periodic reports, for
\* filings that were already stored
Resynced(r, old) ==
    IF IsSync(r) /\ ~r.raised /\ Len(r.fetches) >= 1
    THEN ValidFilings(r.fetches[1].value) \cap DOMAIN old
    ELSE {}

\* the stored filing carries the dates of the payload's entry
CarriesEntryDates(filing, submissions, a) ==
    LET recent == submissions.filings.recent
        i == EntryOf(submissions, a)
    IN  /\ filing.accession_number = a
        /\ filing.filing_date = int(recent.filingDate[i])
        /\ filing.period_end_date = int(recent.reportDate[i])

\* C19 as stated: after a re-sync, a filing that was already stored carries
\* the filing date and report date of the payload's entry, with or without
\* force_refresh, and no record is added for it.
C19_ResyncUpdatesFiling ==
    [][\A a \in Resynced(ret', filings) :
          /\ CarriesEntryDates(filings'[a], ret'.fetches[1].value, a)
          /\ Count(filings') = Cardinality(DOMAIN filings
                                   \cup ValidFilings(ret'.fetches[1].value))]_vars

\* C19 amended: after a re-sync with force_refresh, a filing that was
\* already stored carries the dates of the payload's entry; after a
\* re-sync without force_refresh it is left exactly as it was stored; in
\* both cases no record is added for it.
C19_ResyncUpdatesWhenForced ==
    [][\A a \in Resynced(ret', filings) :
          /\ IF ret'.force_refresh
             THEN CarriesEntryDates(filings'[a], ret'.fetches[1].value, a)
             ELSE filings'[a] = filings[a]
          /\ Count(filings') = Cardinality(DOMAIN filings
                                   \cup ValidFilings(ret'.fetches[1].value))]_vars

\* a forced re-sync that received other dates for acc-1 after the payload
\* with acc-3 had been stored
C19_Witness ==
    /\ IsSync(ret)
    /\ ret.force_refresh
    /\ Len(ret.fetches) = 2
    /\ ret.fetches[1].value = Submissions2
    /\ "acc-3" \in DOMAIN filings
    /\ filings["acc-1"].filing_date = 1
    /\ filings["acc-1"].period_end_date = 1

-----------------------------------------------------------------------------
(* Properties of the analysis *)

\* the annual metrics stored for a company under a name
AnnualOf(company_id, name) ==
    {metrics[id] : id \in {i \in DOMAIN metrics :
        /\ metrics[i].company_id = company_id
        /\ metrics[i].name = name
        /\ metrics[i].period = "annual"}}

\* the value of the latest-dated annual metric of that name
LatestAnnualValue(company_id, name) ==
    (CHOOSE m \in AnnualOf(company_id, name) :
        \A o \in AnnualOf(company_id, name) : o.date <= m.date).value

\* the ratio is in the result exactly when both operands are stored as
\* annual metrics and the latest denominator is not 0, and is then the
\* latest numerator over the latest denominator
RatioAsSpecified(result, company_id, ratio, numerator, denominator) ==
    LET due == /\ AnnualOf(company_id, numerator) # {}
               /\ AnnualOf(company_id, denominator) # {}
               /\ LatestAnnualValue(company_id, denominator) # 0
    IN  /\ (ratio \in DOMAIN result) = due
        /\ due => /\ result[ratio].num = LatestAnnualValue(company_id, numerator)
                  /\ result[ratio].den = LatestAnnualValue(company_id, denominator)

\* C20: for a stored company, calculate_financial_ratios returns each of
\* ROA, ROE, DebtToEquity and ProfitMargin exactly when both of its operands
\* are stored as annual metrics and the latest denominator is not 0,
\* computed from the latest-dated annual metric of each name.
C20_RatiosFromLatestAnnual ==
    (ret.op = "calculate_financial_ratios" /\ upper(ret.arg) \in DOMAIN companies)
    => /\ RatioAsSpecified(ret.value, upper(ret.arg), "ROA", "NetIncome", "TotalAssets")
       /\ RatioAsSpecified(ret.value, upper(ret.arg), "ROE", "NetIncome",
                           "StockholdersEquity")
       /\ RatioAsSpecified(ret.value, upper(ret.arg), "DebtToEquity",
                           "TotalLiabilities", "StockholdersEquity")
       /\ RatioAsSpecified(ret.value, upper(ret.arg), "ProfitMargin", "NetIncome",
                           "Revenue")

\* the entry of a comparison is built from the stored annual observations:
\* its series lists them by ascending date and its latest value and date
\* are those of the last element
EntryFromStore(entry, company_id, metric_name) ==
    LET series == entry.time_series
        n == Len(series)
    IN  /\ n = Cardinality(AnnualOf(company_id, metric_name))
        /\ \A i \in 1..n : \E m \in AnnualOf(company_id, metric_name) :
                m.date = series[i].date /\ m.value = series[i].value
        /\ \A i \in 1..(n - 1) : series[i].date < series[i + 1].date
        /\ entry.latest_value = series[n].value
        /\ entry.latest_date = series[n].date

ComparisonAsSpecified ==
    LET tickers == ret.arg[1]
        metric_name == ret.arg[2]
        with_data == {tickers[i] : i \in {j \in 1..Len(tickers) :
                        /\ upper(tickers[j]) \in DOMAIN companies
                        /\ AnnualOf(upper(tickers[j]), metric_name) # {}}}
    IN  /\ ~ret.raised
        /\ ret.fetches = <<>>
        /\ DOMAIN ret.value = with_data
        /\ \A t \in with_data : EntryFromStore(ret.value[t], upper(t), metric_name)

\* C21: compare_companies returns an entry for exactly the requested tickers
\* that have a stored company and at least one stored annual observation of
\* the metric, omits the others without raising, reports as latest value and
\* date the last element of the date-ascending series, and changes neither
\* the stores nor the caches and issues no request.
C21_CompareReadsStore ==
    [][ret'.op = "compare_companies"
        => /\ ComparisonAsSpecified'
           /\ UNCHANGED <<stores, caches, cache_files>>]_vars

C21_Witness ==
    /\ ret.op = "compare_companies"
    /\ ret.arg[1] = << <<"a">>, <<"b">>, <<"c">> >>
    /\ DOMAIN ret.value = {<<"a">>}
    /\ Len(ret.value[<<"a">>].time_series) = 3

\* the annual observations a ticker's company has stored under a name
SeriesOf(ticker, metric_name) ==
    IF upper(ticker) \in DOMAIN companies
    THEN AnnualOf(companies[upper(ticker)].ticker, metric_name)
    ELSE {}

\* the value of the k-th of them by ascending date
ValueAt(series, k) ==
    (CHOOSE m \in series : Cardinality({o \in series : o.date < m.date}) = k - 1).value

\* C22: calculate_cagr is absent exactly when the annual series has fewer
\* than 2 points or the start or end value is <= 0; the end is the last
\* point, the start is the point `years` positions before the last when
\* there are more than `years` points and the first point otherwise, and
\* the exponent uses n = years in the first case and length - 1 in the
\* second.
C22_CagrEndpoints ==
    ret.op = "calculate_cagr"
    => LET series == SeriesOf(ret.arg[1], ret.arg[2])
           years == ret.arg[3]
           n == Cardinality(series)
           start == IF n > years THEN ValueAt(series, n - years) ELSE ValueAt(series, 1)
           end == ValueAt(series, n)
           absent == n < 2 \/ start <= 0 \/ end <= 0
       IN  /\ ~ret.raised
           /\ (ret.value = None) = absent
           /\ ~absent => ret.value[1] = [end_value |-> end, start_value |-> start,
                                         actual_years |-> IF n > years THEN years
                                                          ELSE n - 1]

C22_Witness ==
    /\ ret.op = "calculate_cagr"
    /\ ret.arg[3] = 1
    /\ Cardinality(SeriesOf(ret.arg[1], ret.arg[2])) = 3
    /\ ret.value # None
    /\ ret.value[1].start_value # ValueAt(SeriesOf(ret.arg[1], ret.arg[2]), 1)

\* the observations of a period a ticker's company has stored under a name
ObservationsOf(ticker, metric_name, period) ==
    IF upper(ticker) \in DOMAIN companies
    THEN {metrics[id] : id \in {i \in DOMAIN metrics :
            /\ metrics[i].company_id = companies[upper(ticker)].ticker
            /\ metrics[i].name = metric_name
            /\ metrics[i].period = period}}
    ELSE {}

\* the k-th of a series by ascending date
PointAt(series, k) ==
    CHOOSE m \in series : Cardinality({o \in series : o.date < m.date}) = k - 1

\* C23: calculate_growth_rates over a series of n >= 2 points returns n - 1
\* entries, the i-th dated at point i + 1 and equal to (curr - prev) /
\* abs(prev) when prev is not 0; when prev is 0 it is an infinity, +inf for
\* curr > 0 and -inf for curr < 0; nothing is raised, and fewer than 2
\* points give an empty result.
C23_GrowthRates ==
    ret.op = "calculate_growth_rates"
    => LET series == ObservationsOf(ret.arg[1], ret.arg[2], ret.arg[3])
           n == Cardinality(series)
       IN  /\ ~ret.raised
           /\ n < 2 => ret.value = <<>>
           /\ n >= 2 =>
                /\ Len(ret.value) = n - 1
                /\ \A i \in 1..(n - 1) :
                    LET curr == PointAt(series, i + 1).value
                        prev == PointAt(series, i).value
                        rate == ret.value[i].growth_rate
                    IN  /\ ret.value[i].date = PointAt(series, i + 1).date
                        /\ prev # 0 => rate = [num |-> curr - prev,
                                               den |-> IF prev < 0 THEN 0 - prev ELSE prev]
                        /\ prev = 0 => /\ rate \in {Inf, NegInf}
                                       /\ curr > 0 => rate = Inf
                                       /\ curr < 0 => rate = NegInf

C23_Witness ==
    /\ ret.op = "calculate_growth_rates"
    /\ Len(ret.value) = 2
    /\ ret.value[1].growth_rate = NegInf
    /\ PointAt(ObservationsOf(ret.arg[1], ret.arg[2], ret.arg[3]), 2).value < 0

\* C29: for every ticker compare_companies returns with an annual series of
\* at least 2 points, the reported growth_rate is the last entry of
\* calculate_growth_rates for the same ticker, metric and annual period,
\* also when the second-to-last value is 0.
C29_CompareGrowthIsLastRate ==
    ret.op = "compare_companies"
    => \A t \in DOMAIN ret.value :
        Len(ret.value[t].time_series) >= 2
        => LET rates == calculate_growth_rates(companies, metrics, t, ret.arg[2], "annual")
           IN  ret.value[t].growth_rate = Some(rates[Len(rates)].growth_rate)

-----------------------------------------------------------------------------
(* Properties of the repositories *)

\* the in-memory collection of a repository among the four
Collection(ms, cs, fs, mts, repo) ==
    CASE repo = "mappings" -> ms
      [] repo = "companies" -> cs
      [] repo = "filings" -> fs
      [] repo = "metrics" -> mts

IsWrite(r) == r.op \in {"create", "update"}

\* C24: in each of the four repositories, create on a stored key and update
\* on a key not stored raise to the caller and leave the in-memory
\* collection and the persisted records unchanged; create on a fresh key
\* and update on a stored key change no record stored under another key.
C24_RejectedWriteChangesNothing ==
    [][IsWrite(ret')
        => LET repo == ret'.arg[1]
               key == ret'.arg[2]
               old == Collection(mappings, companies, filings, metrics, repo)
               new == Collection(mappings', companies', filings', metrics', repo)
           IN  /\ ret'.raised = ((ret'.op = "create") = (key \in DOMAIN old))
               /\ ret'.raised => UNCHANGED <<stores, disk>>
               /\ ~ret'.raised
                    => /\ key \in DOMAIN new /\ key \in DOMAIN disk'[repo]
                       /\ \A k \in DOMAIN old \ {key} : k \in DOMAIN new /\ new[k] = old[k]
                       /\ \A k \in DOMAIN disk[repo] \ {key} :
                            k \in DOMAIN disk'[repo] /\ disk'[repo][k] = disk[repo][k]
                       /\ \A other \in {"mappings", "companies", "filings", "metrics"}
                                        \ {repo} :
                            /\ Collection(mappings', companies', filings', metrics', other)
                               = Collection(mappings, companies, filings, metrics, other)
                            /\ disk'[other] = disk[other]]_vars

C24_Witness ==
    /\ IsWrite(ret)
    /\ ret.raised
    /\ ret.op = "update"
    /\ ret.arg[1] = "mappings"
    /\ Cardinality(DOMAIN mappings) = 1
    /\ Cardinality(DOMAIN companies) = 2
    /\ DOMAIN filings # {}
    /\ DOMAIN metrics # {}

-----------------------------------------------------------------------------
(* Properties of the metric extraction *)

\* the period the classification rule gives an observation: the frame
\* decides when it holds Q or Y, else the fiscal-period code, else annual
PeriodByRule(value_data) ==
    LET frame == Get(value_data, "frame", <<>>)
        fp == Get(value_data, "fp", "")
    IN  IF \E i \in 1..Len(frame) : frame[i] = "Q" THEN "quarterly"
        ELSE IF \E i \in 1..Len(frame) : frame[i] = "Y" THEN "annual"
        ELSE IF fp = "FY" THEN "annual"
        ELSE IF fp \in {"Q1", "Q2", "Q3", "Q4"} THEN "quarterly"
        ELSE "annual"

\* C25: an observation is QUARTERLY when its frame holds "Q", else ANNUAL
\* when its frame holds "Y"; when the frame is absent or holds neither
\* letter the fiscal-period code decides (FY annual, Q1..Q4 quarterly), and
\* ANNUAL is the default when neither disambiguates.
C25_PeriodByFrameThenCode ==
    [][ret'.op = "_process_metric_tag"
        => LET id == <<<<"A">>, "NetIncome", PeriodByRule(ret'.arg), int(ret'.arg["end"])>>
           IN  /\ id \in DOMAIN metrics'
               /\ DOMAIN metrics' \subseteq DOMAIN metrics \cup {id}]_vars

\* the key of a metric: company, name, period and date
KeyOf(metric) == <<metric.company_id, metric.name, metric.period, metric.date>>

\* the observations a sync extracts from the facts it received: for every
\* canonical name the valid observations of its first present alias, each
\* with its place in the payload
Extracted(us_gaap, company_id) ==
    {[key |-> <<company_id, COMMON_METRICS[c[1]].name,
                DeterminePeriod(us_gaap[c[2]].units["USD"][c[3]]),
                int(us_gaap[c[2]].units["USD"][c[3]]["end"])>>,
      value |-> us_gaap[c[2]].units["USD"][c[3]]["val"],
      place |-> c[3]] :
        c \in {<<i, tag, j>> \in (1..Len(COMMON_METRICS)) \X (DOMAIN us_gaap) \X (1..3) :
                /\ FirstAliasPresent(COMMON_METRICS[i].name, tag, us_gaap)
                /\ j <= Len(us_gaap[tag].units["USD"])
                /\ us_gaap[tag].units["USD"][j] \in ValidObservations(us_gaap, tag)}}

\* at most one stored metric per key
OnePerKey(mts) == \A i, j \in DOMAIN mts : KeyOf(mts[i]) = KeyOf(mts[j]) => i = j

\* C26: the metric store never holds two metrics with the same company,
\* name, period and date; after a sync every extracted key has exactly one
\* record, holding the value of the last observation of that key in payload
\* order, and the company's metrics are as many as the distinct keys
\* extracted so far.
C26_OneMetricPerKey ==
    /\ OnePerKey(metrics)
    /\ [][(IsSync(ret') /\ ~ret'.raised /\ Len(ret'.fetches) = 2)
            => LET company_id == upper(ret'.arg)
                   extracted == Extracted(SyncedUsGaap(ret'), company_id)
                   before == {KeyOf(metrics[id]) : id \in DOMAIN metrics}
                   after == {id \in DOMAIN metrics' : metrics'[id].company_id = company_id}
               IN  /\ OnePerKey(metrics')
                   /\ \A e \in extracted :
                        (\A o \in extracted : o.key = e.key => o.place <= e.place)
                        => \E id \in after : /\ KeyOf(metrics'[id]) = e.key
                                             /\ metrics'[id].value = e.value
                   /\ Cardinality(after)
                      = Cardinality({k \in before : k[1] = company_id}
                                    \cup {e.key : e \in extracted})]_vars

\* a sync received two Revenue observations of the same year and stored the
\* second, next to the quarterly one
C26_Witness ==
    /\ IsSync(ret)
    /\ ~ret.raised
    /\ Cardinality(Extracted(SyncedUsGaap(ret), upper(ret.arg))) = 3
    /\ Cardinality(DOMAIN metrics) = 2
    /\ \E id \in DOMAIN metrics : metrics[id].value = 120

-----------------------------------------------------------------------------
(* Properties of the identity repository *)

\* the tickers looked up: those of the seeded store and of the directories
LookupTickers == {<<"A">>, <<"B">>, <<"A", "A", "P", "L">>}

\* C27: after any sequence of directory syncs the ticker index agrees with
\* the records: get_by_ticker(t) returns a mapping exactly when some stored
\* mapping has ticker t, and the mapping returned has ticker t; so after a
\* sync moved a CIK from ticker T1 to T2, T2 finds that CIK's mapping and T1
\* finds nothing.
C27_TickerIndexAgrees ==
    \A t \in LookupTickers :
        LET found == get_by_ticker(mappings, ticker_to_cik, t) IN
        /\ (found # None) = (\E cik \in DOMAIN mappings : upper(mappings[cik].ticker) = t)
        /\ found # None => upper(found[1].ticker) = t

-----------------------------------------------------------------------------
(* Properties of requests served side by side *)

\* C28: when two sync requests for different tickers, each with repositories
\* of its own over the same data directory, have both completed, the
\* persisted company collection holds both companies, however their loads
\* and whole-file saves were interleaved.
C28_BothCompaniesPersisted ==
    \A i, j \in RequestIds :
        (/\ requests[i].pc = "done"
         /\ requests[j].pc = "done"
         /\ requests[i].ticker # requests[j].ticker)
        => {upper(requests[i].ticker), upper(requests[j].ticker)}
              \subseteq DOMAIN disk.companies

====
